---- MODULE Spec2Model ----
(***************************************************************************)
(* Bourse Tracker: the alert ledger kept in a GitHub Gist                  *)
(* (utils/gist_alert_manager.py), the Telegram sender (utils/alerts.py)    *)
(* and the dispatch of filter results (main.py).                           *)
(*                                                                         *)
(* Each process of Procs is one run of the program with its own            *)
(* GistAlertManager and TelegramAlert; the Gist document `remote` is the   *)
(* only state the runs share.  Every await of the code is a step boundary: *)
(* between two steps of one process any step of another may happen.        *)
(*                                                                         *)
(* Further parts: main_async of main.py from its start to its exit code    *)
(* (SpecMain), two runs one after the other (SpecNextRun), the rules of    *)
(* BourseDataProcessor (SpecFilters, SpecRules) and its normalizer         *)
(* (SpecNormalize), the fetch of the first provider (SpecFetch), the       *)
(* daily-summary job (SpecSummary), the lock of one GistAlertManager       *)
(* (SpecLock) and the age of its cache over the two dispatches of a run    *)
(* (SpecCache).                                                            *)
(***************************************************************************)
EXTENDS Integers, Sequences, FiniteSets, TLC

\* ------------------------------------------------------------------ bounds
Procs == {"A", "B"}

\* the day keys "%Y-%m-%d" are zero-padded, so their string order is the
\* order of the days; a day key is modelled by the number of its day
MaxDay == 4
Days == 1..MaxDay

\* number of alerts handed to mark_multiple_as_sent, over all calls
MaxAlerts == 3

\* rows of one filter result
MaxMatches == 3
\* rows of a filter result where two runs overlap
MaxOverlap == 1
\* rows per message: STOCKS_PER_MESSAGE_MAP gives 3 to 5, scaled down here
STOCKS_PER_MESSAGE == 2
\* longest wait a RetryAfter of the sink asks for, in seconds
MaxRetryAfter == 1

\* the rows of the table a BourseDataProcessor is given at most
MaxRows == 2

\* the calls of apply_all_filters on one BourseDataProcessor at most
MaxCalls == 2

\* the rules evaluated one after the other on one table at most
MaxEvaluations == 2

\* the invocations of the daily-summary job at most, and the days they fall on
MaxInvocations == 3
MaxSummaryDays == 2

\* the industry codes a fetch of the first provider asks for (config.py has 40)
MaxIndustries == 2

\* the coroutines of one process that call _save_to_gist at the same time
MaxCallers == 2

Alert(s, t) == [symbol |-> s, alert_type |-> t]
\* the (symbol, alert_type) entries that occur
Pairs == {Alert("AAA", "r1"), Alert("BBB", "r1")}

\* ------------------------------------------------------- program constants
\* sorted(data.keys(), reverse=True)[:3]
Retention == 3
\* _save_to_gist(data, max_retries=3)
max_retries == 3
\* self.semaphore = asyncio.Semaphore(3)
SemaphoreSize == 3
\* await asyncio.sleep(4) after a delivered message
SendDelay == 4
\* await asyncio.sleep(2) after a TimedOut
TimeoutDelay == 2
\* self._cache_duration = 10, in seconds
cache_duration == 10

\* the filters of a run, in the order of the filters_results dict
RuleOrder == <<"r1", "r2">>
Rules == {RuleOrder[i] : i \in DOMAIN RuleOrder}
\* the symbols of a filter result, in the order of its sort
AllSymbols == <<"AAA", "BBB", "CCC", "DDD", "EEE">>
Symbols == {AllSymbols[i] : i \in DOMAIN AllSymbols}

VARIABLES
    remote,     \* content of alert_cache.json in the Gist: day |-> list of alerts
    cache,      \* self._cache of each manager
    mpc,        \* where each manager's mark_multiple_as_sent call stands
    alerts,     \* the argument of the call in progress
    data,       \* the local `data` dict of the call
    attempt,    \* loop variable of _save_to_gist
    result,     \* what the last call returned
    handed,     \* number of alerts handed to mark_multiple_as_sent so far
    committed,  \* the entries of the calls of each manager that wrote and returned True
    rpc,        \* where each run's send_alerts_for_filters_async stands
    matches,    \* filters_results of each run: filter |-> symbols of its rows
    all_tasks,  \* the batches of each run: symbols_to_send and filter_name
    tpc,        \* where each batch's send_filter_alert task stands, or its result
    rem,        \* seconds left of the sleep of each task
    semaphore,  \* value of TelegramAlert.semaphore of each run
    sent_count,
    skipped_count,
    delivered,  \* how often the sink accepted a message holding (symbol, filter)
    timed,      \* whether the durations of the sleeps are measured
    sinceLast,  \* seconds since a run's last send attempt, up to SendDelay
    minGap,     \* least time between two send attempts of a run, up to SendDelay
    main_pc,    \* where each run's main_async stands
    exit_code,  \* the exit status of each run's process, once it has one
    fetched,    \* whether a run has called fetch_all_data
    clock,      \* the Tehran time at which each run is made
    processor,  \* a BourseDataProcessor, its inputs and what its call gave
    fetcher,    \* a call of UnifiedDataFetcher.fetch_from_api1
    summary,    \* the invocations of daily_summary_main of one day
    manager     \* a GistAlertManager with callers of its own, and its clock

ledgerVars == <<remote, cache, mpc, alerts, data, attempt, result, handed, committed>>
runVars == <<rpc, matches, all_tasks, tpc, rem, semaphore, sent_count, skipped_count,
             delivered, timed, sinceLast, minGap>>
mainVars == <<main_pc, exit_code, fetched, clock>>
\* what the dispatch and the ledger do not touch
restVars == <<mainVars, processor, fetcher, summary, manager>>
vars == <<ledgerVars, runVars, restVars>>

\* ---------------------------------------------------------------- documents
\* a document is a function from the day keys it holds to lists of alerts
EmptyDoc == [d \in {} |-> <<>>]

Put(doc, k, v) == [x \in DOMAIN doc \cup {k} |-> IF x = k THEN v ELSE doc[x]]

\* dict.update: the keys of `other` override
Update(doc, other) ==
    [x \in DOMAIN doc \cup DOMAIN other |-> IF x \in DOMAIN other THEN other[x] ELSE doc[x]]

Range(s) == {s[i] : i \in DOMAIN s}

\* self.today_jalali: every run of the model is made on the latest day
today_jalali == MaxDay

\* self._cache is None
NoCache == [isNone |-> TRUE, doc |-> EmptyDoc]
Cached(doc) == [isNone |-> FALSE, doc |-> doc]

\* a pruning that keeps every day
PruneNothing(doc) == doc

\* a pruning that keeps the earliest days
PruneEarliest(doc) ==
    LET keep == {d \in DOMAIN doc : Cardinality({e \in DOMAIN doc : e < d}) < Retention}
    IN  [d \in keep |-> doc[d]]

\* new_data = {day: data[day] for day in sorted(data.keys(), reverse=True)[:3]}
Prune(doc) ==
    LET keep == {d \in DOMAIN doc : Cardinality({e \in DOMAIN doc : e > d}) < Retention}
    IN  [d \in keep |-> doc[d]]

\* [a for a in alerts if (a.symbol, a.alert_type) not in existing_alerts]
NotIn(list, existing) ==
    LET Test(a) == a \notin existing IN SelectSeq(list, Test)

\* should_send_alert's scan of self._cache.get(today, [])
NotYetSent(doc, a) ==
    \/ today_jalali \notin DOMAIN doc
    \/ \A i \in DOMAIN doc[today_jalali] :
          ~(doc[today_jalali][i].symbol = a.symbol
            /\ doc[today_jalali][i].alert_type = a.alert_type)

\* the answers a GET of the Gist can get: the document (TRUE), or a status
\* other than 200 or an exception (FALSE)
GetOutcomes == BOOLEAN

\* ------------------------------------------------------------------- Init
\* what days before today hold: one delivered alert
OldPartition == <<Alert("AAA", "r1")>>

\* the documents the store holds when the runs start: the Gist as
\* _create_new_gist_sync makes it, a Gist last written on an earlier day that
\* holds Retention days, and a Gist already written today
InitDocs ==
    { Put(EmptyDoc, today_jalali, <<>>),
      [d \in (today_jalali - Retention)..(today_jalali - 1) |-> OldPartition],
      Put([d \in (today_jalali - Retention + 1)..(today_jalali - 1) |-> OldPartition],
          today_jalali, <<Alert("AAA", "r1")>>) }

AlertLists == UNION {[1..n -> Pairs] : n \in 0..MaxAlerts}

\* every (symbol, filter) a run can match
AllPairs == {Alert(s, r) : s \in Symbols, r \in Rules}

\* a filter that matched nothing
NoMatches == [r \in Rules |-> <<>>]

\* a Saturday that is no holiday, at 08:00:00 of Tehran: datetime.weekday()
\* counts from Monday = 0, the time of day is in seconds
OpenClock == [weekday |-> 5, holiday |-> FALSE, seconds |-> 28800]

\* main_async of every run has fetched and filtered, and is at its call of
\* send_alerts_for_filters_async
InitInDispatch ==
    /\ main_pc = [p \in Procs |-> "dispatch"]
    /\ exit_code = [p \in Procs |-> "none"]
    /\ fetched = [p \in Procs |-> TRUE]
    /\ clock = [p \in Procs |-> OpenClock]

\* no BourseDataProcessor, no fetch and no daily summary is at work
Idle == [pc |-> "idle"]
InitOthersIdle == processor = Idle /\ fetcher = Idle /\ summary = Idle /\ manager = Idle

\* TelegramAlert() of every run, before any task is made; no message was
\* sent to the sink yet
InitSender ==
    /\ all_tasks = [p \in Procs |-> <<>>]
    /\ tpc = [p \in Procs |-> <<>>]
    /\ rem = [p \in Procs |-> <<>>]
    /\ semaphore = [p \in Procs |-> SemaphoreSize]
    /\ sent_count = [p \in Procs |-> 0]
    /\ skipped_count = [p \in Procs |-> 0]
    /\ delivered = [a \in AllPairs |-> 0]
    /\ sinceLast = SendDelay
    /\ minGap = SendDelay

\* no run of the dispatch: the variables of the runs at rest
InitNoRun ==
    /\ InitSender
    /\ InitInDispatch
    /\ rpc = [p \in Procs |-> "done"]
    /\ matches = [p \in Procs |-> NoMatches]
    /\ timed = FALSE

\* GistAlertManager(GIST_TOKEN, GIST_ID) of every run, and the Gist they share
InitManagers ==
    /\ remote \in InitDocs
    /\ cache = [p \in Procs |-> NoCache]
    /\ mpc = [p \in Procs |-> "idle"]
    /\ alerts = [p \in Procs |-> <<>>]
    /\ data = [p \in Procs |-> EmptyDoc]
    /\ attempt = [p \in Procs |-> 0]
    /\ result = [p \in Procs |-> "none"]
    /\ handed = 0
    /\ committed = [p \in Procs |-> {}]

InitLedger == InitManagers /\ InitNoRun /\ InitOthersIdle

\* --------------------------------------------------- GistAlertManager steps

\* should_send_alert(symbol, alert_type): the first call loads the document
\* with a blocking GET; a failed load leaves an empty cache
should_send_alert(p, a) ==
    /\ mpc[p] = "idle"
    /\ \E ok \in GetOutcomes :
        LET c == IF cache[p].isNone
                 THEN (IF ok THEN Cached(remote) ELSE Cached(EmptyDoc))
                 ELSE cache[p]
        IN  cache' = [cache EXCEPT ![p] = c]
    /\ UNCHANGED <<remote, mpc, alerts, data, attempt, result, handed, committed>>
    /\ UNCHANGED <<runVars, restVars>>

\* mark_multiple_as_sent(alerts) up to its first await:
\* an empty list returns True at once
MarkStart(p, list) ==
    /\ mpc[p] = "idle"
    /\ handed + Len(list) <= MaxAlerts
    /\ handed' = handed + Len(list)
    /\ IF list = <<>>
       THEN /\ result' = [result EXCEPT ![p] = "True"]
            /\ UNCHANGED <<mpc, alerts>>
       ELSE /\ mpc' = [mpc EXCEPT ![p] = "load"]
            /\ alerts' = [alerts EXCEPT ![p] = list]
            /\ result' = [result EXCEPT ![p] = "none"]
    /\ UNCHANGED <<remote, cache, data, attempt, committed>>
    /\ UNCHANGED <<runVars, restVars>>

\* a mark_multiple_as_sent that saves whatever it loaded, new entries or not
MarkLoadAlwaysSave(p) ==
    /\ mpc[p] = "load"
    /\ \E ok \in GetOutcomes :
        LET loaded == IF ok THEN remote ELSE EmptyDoc
            d1 == IF today_jalali \in DOMAIN loaded
                  THEN loaded ELSE Put(loaded, today_jalali, <<>>)
            new_alerts == NotIn(alerts[p], Range(d1[today_jalali]))
            d2 == [d1 EXCEPT ![today_jalali] = @ \o new_alerts]
        IN  /\ data' = [data EXCEPT ![p] = d2]
            /\ cache' = [cache EXCEPT ![p] = Cached(d2)]
            /\ attempt' = [attempt EXCEPT ![p] = 0]
            /\ mpc' = [mpc EXCEPT ![p] = "patch"]
            /\ UNCHANGED <<result, alerts, committed>>
    /\ UNCHANGED <<remote, handed>>
    /\ UNCHANGED <<runVars, restVars>>

\* the answer to `await self._load_gist_content(use_cache=False)` and the code
\* up to `await self._save_to_gist(data)`.  A successful load returns the very
\* dict it stored in self._cache, so what the code then does to `data` it
\* does to the cache; a failed load returns a fresh {}.
MarkLoad(p) ==
    /\ mpc[p] = "load"
    /\ \E ok \in GetOutcomes :
        LET loaded == IF ok THEN remote ELSE EmptyDoc
            d1 == IF today_jalali \in DOMAIN loaded
                  THEN loaded ELSE Put(loaded, today_jalali, <<>>)
            new_alerts == NotIn(alerts[p], Range(d1[today_jalali]))
            d2 == [d1 EXCEPT ![today_jalali] = @ \o new_alerts]
        IN  IF new_alerts # <<>>
               THEN /\ data' = [data EXCEPT ![p] = d2]
                    /\ cache' = [cache EXCEPT ![p] = Cached(d2)]
                    /\ attempt' = [attempt EXCEPT ![p] = 0]
                    /\ mpc' = [mpc EXCEPT ![p] = "patch"]
                    /\ UNCHANGED <<result, alerts, committed>>
               ELSE /\ data' = [data EXCEPT ![p] = EmptyDoc]
                    /\ cache' = [cache EXCEPT ![p] = IF ok THEN Cached(d1) ELSE @]
                    /\ mpc' = [mpc EXCEPT ![p] = "idle"]
                    /\ result' = [result EXCEPT ![p] = "True"]
                    /\ alerts' = [alerts EXCEPT ![p] = <<>>]
                    /\ UNCHANGED <<attempt, committed>>
    /\ UNCHANGED <<remote, handed>>
    /\ UNCHANGED <<runVars, restVars>>

\* the answers the store can give to the PATCH; the request carries the
\* whole document and nothing that names the revision it was computed from
PatchOutcomes == {"200", "409", "other", "exception"}

\* await asyncio.sleep(0.5 * attempt), in tenths of a second
retry_wait(k) == 5 * k

\* a _save_to_gist that tries once more than max_retries
SavePatchOnceMore(p) ==
    /\ mpc[p] = "patch"
    /\ \E status \in PatchOutcomes :
        LET new_data == Prune(data[p])
            retry == status \in {"409", "exception"} /\ attempt[p] < max_retries
        IN  /\ remote' = IF status = "200" THEN new_data ELSE remote
            /\ cache' = [cache EXCEPT ![p] = IF status = "200" THEN Cached(new_data) ELSE @]
            /\ mpc' = [mpc EXCEPT ![p] = IF retry THEN "reload" ELSE "idle"]
            /\ attempt' = [attempt EXCEPT ![p] = IF retry THEN @ + 1 ELSE 0]
            /\ data' = [data EXCEPT ![p] = IF retry THEN @ ELSE EmptyDoc]
            /\ result' = [result EXCEPT ![p] =
                    IF retry THEN @ ELSE IF status = "200" THEN "True" ELSE "False"]
            /\ alerts' = [alerts EXCEPT ![p] = IF retry THEN @ ELSE <<>>]
            /\ committed' = [committed EXCEPT ![p] =
                    IF status = "200" THEN @ \cup Range(alerts[p]) ELSE @]
    /\ UNCHANGED handed
    /\ UNCHANGED <<runVars, restVars>>

\* _save_to_gist: the answer to the PATCH of attempt `attempt`.  On 200 the
\* store holds the document sent.  A 409 goes on to the next attempt, and so
\* does an exception (the except clause returns only on the last attempt);
\* any other status returns False.  The locals die with the return.
SavePatch(p) ==
    /\ mpc[p] = "patch"
    /\ \E status \in PatchOutcomes :
        LET new_data == Prune(data[p])
            retry == status \in {"409", "exception"} /\ attempt[p] < max_retries - 1
        IN  /\ remote' = IF status = "200" THEN new_data ELSE remote
            /\ cache' = [cache EXCEPT ![p] = IF status = "200" THEN Cached(new_data) ELSE @]
            /\ mpc' = [mpc EXCEPT ![p] = IF retry THEN "reload" ELSE "idle"]
            /\ attempt' = [attempt EXCEPT ![p] = IF retry THEN @ + 1 ELSE 0]
            /\ data' = [data EXCEPT ![p] = IF retry THEN @ ELSE EmptyDoc]
            /\ result' = [result EXCEPT ![p] =
                    IF retry THEN @ ELSE IF status = "200" THEN "True" ELSE "False"]
            /\ alerts' = [alerts EXCEPT ![p] = IF retry THEN @ ELSE <<>>]
            /\ committed' = [committed EXCEPT ![p] =
                    IF status = "200" THEN @ \cup Range(alerts[p]) ELSE @]
    /\ UNCHANGED handed
    /\ UNCHANGED <<runVars, restVars>>

\* _save_to_gist, attempt > 0: after the sleep, the answer to the reload and
\* the merge of `data` into it
SaveReload(p) ==
    /\ mpc[p] = "reload"
    /\ \E ok \in GetOutcomes :
        LET current_data == IF ok THEN remote ELSE EmptyDoc
        IN  IF today_jalali \in DOMAIN current_data /\ today_jalali \in DOMAIN data[p]
               THEN LET new_alerts == NotIn(data[p][today_jalali],
                                            Range(current_data[today_jalali]))
                        merged == [current_data EXCEPT ![today_jalali] = @ \o new_alerts]
                    IN  /\ data' = [data EXCEPT ![p] = merged]
                        /\ cache' = [cache EXCEPT ![p] = Cached(merged)]
               ELSE /\ data' = [data EXCEPT ![p] = Update(@, current_data)]
                    /\ cache' = [cache EXCEPT ![p] =
                            IF ok THEN Cached(current_data) ELSE @]
    /\ mpc' = [mpc EXCEPT ![p] = "patch"]
    /\ UNCHANGED <<remote, alerts, attempt, result, handed, committed>>
    /\ UNCHANGED <<runVars, restVars>>

NextLedger ==
    \/ \E p \in Procs, a \in Pairs : should_send_alert(p, a)
    \/ \E p \in Procs, list \in AlertLists : MarkStart(p, list)
    \/ \E p \in Procs : MarkLoad(p)
    \/ \E p \in Procs : SavePatch(p)
    \/ \E p \in Procs : SaveReload(p)

SpecLedger == InitLedger /\ [][NextLedger]_vars

\* every request of a call has a total timeout of 10 seconds
\* (aiohttp.ClientTimeout(total=10)) and every sleep ends, so a call that
\* has begun takes its next step
SpecLedgerFair ==
    /\ SpecLedger
    /\ \A p \in Procs :
          /\ WF_vars(MarkLoad(p))
          /\ WF_vars(SavePatch(p))
          /\ WF_vars(SaveReload(p))

\* ------------------------------------------- callers of one GistAlertManager

\* the coroutines of one process that call _save_to_gist of the manager of
\* run "A"
Callers == 1..MaxCallers

\* who is inside `async with self._lock`
Inside(m) == {c \in Callers : m.at[c] \in {"patch", "reload"}}

\* a call that enters the retry loop whether the lock is free or not
SaveCallUnlocked(c) ==
    /\ manager.at[c] = "idle"
    /\ \E a \in Pairs :
        LET loaded == IF today_jalali \in DOMAIN remote
                      THEN remote ELSE Put(remote, today_jalali, <<>>)
            doc == [loaded EXCEPT ![today_jalali] = @ \o NotIn(<<a>>, Range(@))]
        IN  manager' = [manager EXCEPT !.data[c] = doc, !.at[c] = "patch", !.locked = TRUE]
    /\ UNCHANGED <<ledgerVars, runVars, mainVars, processor, fetcher, summary>>

\* _save_to_gist(data) up to its first await, with the document that
\* mark_multiple_as_sent makes of the Gist and a new entry: Lock.acquire
\* returns at once when the lock is free, and the first pass of the loop
\* goes straight to the PATCH; when the lock is held the caller waits
SaveCall(c) ==
    /\ manager.at[c] = "idle"
    /\ \E a \in Pairs :
        LET loaded == IF today_jalali \in DOMAIN remote
                      THEN remote ELSE Put(remote, today_jalali, <<>>)
            doc == [loaded EXCEPT ![today_jalali] = @ \o NotIn(<<a>>, Range(@))]
        IN  manager' = [manager EXCEPT
                !.data[c] = doc,
                !.at[c] = IF manager.locked THEN "acquire" ELSE "patch",
                !.locked = TRUE]
    /\ UNCHANGED <<ledgerVars, runVars, mainVars, processor, fetcher, summary>>

\* the lock was released and a waiting caller has it
LockAcquired(c) ==
    /\ manager.at[c] = "acquire"
    /\ ~manager.locked
    /\ manager' = [manager EXCEPT !.at[c] = "patch", !.locked = TRUE]
    /\ UNCHANGED <<ledgerVars, runVars, mainVars, processor, fetcher, summary>>

\* the answer to the PATCH of a caller: every return leaves the `async with`
\* block, which releases the lock
PatchAnswered(c) ==
    /\ manager.at[c] = "patch"
    /\ \E status \in PatchOutcomes :
        LET new_data == Prune(manager.data[c])
            retry == status \in {"409", "exception"} /\ manager.attempt[c] < max_retries - 1
        IN  /\ remote' = IF status = "200" THEN new_data ELSE remote
            /\ cache' = [cache EXCEPT !["A"] = IF status = "200" THEN Cached(new_data) ELSE @]
            /\ manager' = [manager EXCEPT
                    !.at[c] = IF retry THEN "reload" ELSE "returned",
                    !.attempt[c] = IF retry THEN @ + 1 ELSE @,
                    !.ret[c] = IF retry THEN @ ELSE IF status = "200" THEN "True" ELSE "False",
                    !.locked = retry,
                    !.age = IF status = "200" THEN 0 ELSE @,
                    !.unloaded = IF status = "200" THEN FALSE ELSE @]
    /\ UNCHANGED <<mpc, alerts, data, attempt, result, handed, committed>>
    /\ UNCHANGED <<runVars, mainVars, processor, fetcher, summary>>

\* attempt > 0 of a caller: the sleep, the reload and the merge, inside the
\* lock
Reloaded(c) ==
    /\ manager.at[c] = "reload"
    /\ \E ok \in GetOutcomes :
        LET current_data == IF ok THEN remote ELSE EmptyDoc
            mine == manager.data[c]
        IN  IF today_jalali \in DOMAIN current_data /\ today_jalali \in DOMAIN mine
               THEN LET new_alerts == NotIn(mine[today_jalali],
                                            Range(current_data[today_jalali]))
                        merged == [current_data EXCEPT ![today_jalali] = @ \o new_alerts]
                    IN  /\ manager' = [manager EXCEPT !.data[c] = merged, !.at[c] = "patch",
                                                      !.age = 0, !.unloaded = FALSE]
                        /\ cache' = [cache EXCEPT !["A"] = Cached(merged)]
               ELSE /\ manager' = [manager EXCEPT !.data[c] = Update(@, current_data),
                                                  !.at[c] = "patch",
                                                  !.age = IF ok THEN 0 ELSE @,
                                                  !.unloaded = IF ok THEN FALSE ELSE @]
                    /\ cache' = [cache EXCEPT !["A"] = IF ok THEN Cached(current_data) ELSE @]
    /\ UNCHANGED <<remote, mpc, alerts, data, attempt, result, handed, committed>>
    /\ UNCHANGED <<runVars, mainVars, processor, fetcher, summary>>

\* no should_send_alert has answered
NoAnswer == [asked |-> FALSE, age |-> 0, unloaded |-> FALSE, sendable |-> TRUE]

\* GistAlertManager(): the lock is free and no caller has begun; _cache_time
\* is 0, which is further back than any cache duration. `age` is
\* time.time() - self._cache_time in seconds, counted up to cache_duration;
\* `unloaded` says that self._cache is the {} a failed first load left
NewManager ==
    [at |-> [c \in Callers |-> "idle"],
     locked |-> FALSE,
     attempt |-> [c \in Callers |-> 0],
     data |-> [c \in Callers |-> EmptyDoc],
     ret |-> [c \in Callers |-> "none"],
     age |-> cache_duration,
     unloaded |-> FALSE,
     api |-> 1,
     run |-> "build",
     tasks |-> FALSE,
     answer |-> NoAnswer]

InitLock ==
    /\ InitManagers
    /\ InitNoRun
    /\ processor = Idle /\ fetcher = Idle /\ summary = Idle
    /\ manager = NewManager

NextLock ==
    \/ \E c \in Callers : SaveCall(c)
    \/ \E c \in Callers : LockAcquired(c)
    \/ \E c \in Callers : PatchAnswered(c)
    \/ \E c \in Callers : Reloaded(c)

SpecLock == InitLock /\ [][NextLock]_vars

\* ------------------------------------- the cache of one GistAlertManager
\* main_async makes one manager and calls send_alerts_for_filters_async
\* with it twice, for the filters of the first provider and for the filter of
\* the second; the manager here is the one of run "A"

\* should_send_alert(symbol, alert_type) with the clock: a load is made only
\* when self._cache is None; a load that succeeds sets _cache_time, one that
\* fails leaves {} and the _cache_time of __init__
Lookup(a) ==
    /\ manager.run = "build"
    /\ \E ok \in GetOutcomes :
        LET load == cache["A"].isNone
            c == IF load
                 THEN (IF ok THEN Cached(remote) ELSE Cached(EmptyDoc))
                 ELSE cache["A"]
            age == IF load /\ ok THEN 0 ELSE manager.age
            unloaded == IF load THEN ~ok ELSE manager.unloaded
            sendable == NotYetSent(c.doc, a)
        IN  /\ cache' = [cache EXCEPT !["A"] = c]
            /\ manager' = [manager EXCEPT
                    !.age = age,
                    !.unloaded = unloaded,
                    !.tasks = @ \/ sendable,
                    !.answer = [asked |-> TRUE, age |-> age, unloaded |-> unloaded,
                                sendable |-> sendable]]
    /\ UNCHANGED <<remote, mpc, alerts, data, attempt, result, handed, committed>>
    /\ UNCHANGED <<runVars, mainVars, processor, fetcher, summary>>

\* the return of one send_alerts_for_filters_async, and the call of the next
NextCall(m) ==
    [m EXCEPT !.api = IF @ < 2 THEN @ + 1 ELSE @,
              !.run = IF m.api < 2 THEN "build" ELSE "over",
              !.tasks = FALSE,
              !.answer = NoAnswer]

\* `if all_tasks:` with no task: the call returns at once
NoTasks ==
    /\ manager.run = "build"
    /\ ~manager.tasks
    /\ manager' = NextCall(manager)
    /\ UNCHANGED <<ledgerVars, runVars, mainVars, processor, fetcher, summary>>

\* results = await asyncio.gather(*tasks_only, return_exceptions=True)
GatherStarts ==
    /\ manager.run = "build"
    /\ manager.tasks
    /\ manager' = [manager EXCEPT !.run = "gather"]
    /\ UNCHANGED <<ledgerVars, runVars, mainVars, processor, fetcher, summary>>

\* the sleeps of send_message while the tasks run: 4 seconds after a
\* delivered message, 2 after a TimedOut, retry_after after a RetryAfter
Elapse(d) ==
    /\ manager.run = "gather"
    /\ manager.age < cache_duration
    /\ manager' = [manager EXCEPT
            !.age = IF @ + d < cache_duration THEN @ + d ELSE cache_duration]
    /\ UNCHANGED <<ledgerVars, runVars, mainVars, processor, fetcher, summary>>

\* every result is False or an exception: successful_marks is empty and
\* mark_multiple_as_sent is not called
GatherFailed ==
    /\ manager.run = "gather"
    /\ manager' = NextCall(manager)
    /\ UNCHANGED <<ledgerVars, runVars, mainVars, processor, fetcher, summary>>

\* mark_multiple_as_sent(successful_marks) up to the PATCH: the load with
\* use_cache=False sets the cache and its time when it succeeds; new entries
\* set them again
MarkCalled(c) ==
    /\ manager.run = "gather"
    /\ manager.at[c] = "idle"
    /\ \E a \in Pairs, ok \in GetOutcomes :
        LET loaded == IF ok THEN remote ELSE EmptyDoc
            withToday == IF today_jalali \in DOMAIN loaded
                         THEN loaded ELSE Put(loaded, today_jalali, <<>>)
            new_alerts == NotIn(<<a>>, Range(withToday[today_jalali]))
            doc == [withToday EXCEPT ![today_jalali] = @ \o new_alerts]
        IN  IF new_alerts = <<>>
            THEN /\ cache' = [cache EXCEPT !["A"] = Cached(withToday)]
                 /\ manager' = [manager EXCEPT
                        !.run = "commit", !.at[c] = "returned", !.ret[c] = "True",
                        !.age = 0, !.unloaded = FALSE]
            ELSE /\ cache' = [cache EXCEPT !["A"] = Cached(doc)]
                 /\ manager' = [manager EXCEPT
                        !.run = "commit", !.at[c] = "patch", !.data[c] = doc,
                        !.locked = TRUE, !.age = 0, !.unloaded = FALSE]
    /\ UNCHANGED <<remote, mpc, alerts, data, attempt, result, handed, committed>>
    /\ UNCHANGED <<runVars, mainVars, processor, fetcher, summary>>

\* mark_multiple_as_sent has returned
MarkReturned(c) ==
    /\ manager.run = "commit"
    /\ manager.at[c] = "returned"
    /\ manager' = [NextCall(manager) EXCEPT !.at[c] = "idle", !.attempt[c] = 0]
    /\ UNCHANGED <<ledgerVars, runVars, mainVars, processor, fetcher, summary>>

NextCache ==
    \/ \E a \in Pairs : Lookup(a)
    \/ NoTasks
    \/ GatherStarts
    \/ \E d \in {SendDelay, TimeoutDelay} \cup (1..MaxRetryAfter) : Elapse(d)
    \/ GatherFailed
    \/ MarkCalled(1)
    \/ PatchAnswered(1)
    \/ Reloaded(1)
    \/ MarkReturned(1)

SpecCache == InitLock /\ [][NextCache]_vars

\* ------------------------------------------------------------ TelegramAlert

Min(a, b) == IF a < b THEN a ELSE b

\* the answers of the sink to bot.send_message
SendOutcomes == {"ok", "RetryAfter", "TimedOut", "error"}

\* the sink accepted the message of a batch
Deliver(del, task) ==
    [a \in AllPairs |->
        del[a] + IF a.alert_type = task.filter_name /\ a.symbol \in Range(task.symbols)
                 THEN 1 ELSE 0]

\* a task takes the semaphore without looking at its value
AcquireAlways(p, t) == TRUE

\* `async with self.semaphore` lets a task in while the value is positive
Acquire(p, t) == semaphore[p] > 0

\* a call of bot.send_message is made now
SendAttempt ==
    IF timed
    THEN /\ minGap' = Min(minGap, sinceLast)
         /\ sinceLast' = 0
    ELSE UNCHANGED <<minGap, sinceLast>>

\* asyncio.sleep(seconds)
Sleep(p, t, seconds) == rem' = [rem EXCEPT ![p][t] = IF timed THEN seconds ELSE 0]

\* send_filter_alert: format_func raises, or the message is blank
FormatFails(p, t) ==
    /\ rpc[p] = "gather"
    /\ t \in DOMAIN tpc[p]
    /\ tpc[p][t] = "wait"
    /\ tpc' = [tpc EXCEPT ![p][t] = "False"]
    /\ UNCHANGED <<ledgerVars, restVars, rpc, matches, all_tasks, rem, semaphore, sent_count,
                   skipped_count, delivered, timed, sinceLast, minGap>>

\* send_filter_alert up to the first bot.send_message of send_message
SendStart(p, t) ==
    /\ rpc[p] = "gather"
    /\ t \in DOMAIN tpc[p]
    /\ tpc[p][t] = "wait"
    /\ Acquire(p, t)
    /\ semaphore' = [semaphore EXCEPT ![p] = @ - 1]
    /\ tpc' = [tpc EXCEPT ![p][t] = "send1"]
    /\ SendAttempt
    /\ UNCHANGED <<ledgerVars, restVars, rpc, matches, all_tasks, rem, sent_count,
                   skipped_count, delivered, timed>>

\* the answer to the first bot.send_message
SendAnswer(p, t) ==
    /\ t \in DOMAIN tpc[p]
    /\ tpc[p][t] = "send1"
    /\ \E o \in SendOutcomes, retry_after \in 1..MaxRetryAfter :
        CASE o = "ok" ->
                /\ delivered' = Deliver(delivered, all_tasks[p][t])
                /\ tpc' = [tpc EXCEPT ![p][t] = "sleep_ok"]
                /\ Sleep(p, t, SendDelay)
                /\ UNCHANGED semaphore
          [] o = "RetryAfter" ->
                /\ tpc' = [tpc EXCEPT ![p][t] = "sleep_retry"]
                /\ Sleep(p, t, retry_after)
                /\ UNCHANGED <<delivered, semaphore>>
          [] o = "TimedOut" ->
                /\ tpc' = [tpc EXCEPT ![p][t] = "sleep_retry"]
                /\ Sleep(p, t, TimeoutDelay)
                /\ UNCHANGED <<delivered, semaphore>>
          [] o = "error" ->
                /\ tpc' = [tpc EXCEPT ![p][t] = "False"]
                /\ semaphore' = [semaphore EXCEPT ![p] = @ + 1]
                /\ UNCHANGED <<delivered, rem>>
    /\ UNCHANGED <<ledgerVars, restVars, rpc, matches, all_tasks, sent_count, skipped_count,
                   timed, sinceLast, minGap>>

\* a return after the sleep(4) that keeps the permit of the semaphore
SendDoneHolding(p, t) ==
    /\ t \in DOMAIN tpc[p]
    /\ tpc[p][t] = "sleep_ok"
    /\ rem[p][t] = 0
    /\ tpc' = [tpc EXCEPT ![p][t] = "True"]
    /\ UNCHANGED <<ledgerVars, restVars, rpc, matches, all_tasks, rem, semaphore, sent_count,
                   skipped_count, delivered, timed, sinceLast, minGap>>

\* the sleep(4) after a delivered message is over: return True
SendDone(p, t) ==
    /\ t \in DOMAIN tpc[p]
    /\ tpc[p][t] = "sleep_ok"
    /\ rem[p][t] = 0
    /\ tpc' = [tpc EXCEPT ![p][t] = "True"]
    /\ semaphore' = [semaphore EXCEPT ![p] = @ + 1]
    /\ UNCHANGED <<ledgerVars, restVars, rpc, matches, all_tasks, rem, sent_count,
                   skipped_count, delivered, timed, sinceLast, minGap>>

\* the sleep after RetryAfter or TimedOut is over: the second bot.send_message
SendRetry(p, t) ==
    /\ t \in DOMAIN tpc[p]
    /\ tpc[p][t] = "sleep_retry"
    /\ rem[p][t] = 0
    /\ tpc' = [tpc EXCEPT ![p][t] = "send2"]
    /\ SendAttempt
    /\ UNCHANGED <<ledgerVars, restVars, rpc, matches, all_tasks, rem, semaphore, sent_count,
                   skipped_count, delivered, timed>>

\* a second bot.send_message that, when it fails, waits and sends once more
RetryAnswerAgain(p, t) ==
    /\ t \in DOMAIN tpc[p]
    /\ tpc[p][t] = "send2"
    /\ \E ok \in BOOLEAN :
        /\ delivered' = IF ok THEN Deliver(delivered, all_tasks[p][t]) ELSE delivered
        /\ tpc' = [tpc EXCEPT ![p][t] = IF ok THEN "True" ELSE "sleep_retry"]
        /\ semaphore' = [semaphore EXCEPT ![p] = IF ok THEN @ + 1 ELSE @]
    /\ UNCHANGED <<ledgerVars, restVars, rpc, matches, all_tasks, rem, sent_count,
                   skipped_count, timed, sinceLast, minGap>>

\* the answer to the second bot.send_message: True, or False on any exception
RetryAnswer(p, t) ==
    /\ t \in DOMAIN tpc[p]
    /\ tpc[p][t] = "send2"
    /\ \E ok \in BOOLEAN :
        /\ delivered' = IF ok THEN Deliver(delivered, all_tasks[p][t]) ELSE delivered
        /\ tpc' = [tpc EXCEPT ![p][t] = IF ok THEN "True" ELSE "False"]
    /\ semaphore' = [semaphore EXCEPT ![p] = @ + 1]
    /\ UNCHANGED <<ledgerVars, restVars, rpc, matches, all_tasks, rem, sent_count,
                   skipped_count, timed, sinceLast, minGap>>

\* one second passes
Tick ==
    /\ timed
    /\ sinceLast < SendDelay \/ \E p \in Procs : \E t \in DOMAIN rem[p] : rem[p][t] > 0
    /\ rem' = [p \in Procs |-> [t \in DOMAIN rem[p] |->
                    IF rem[p][t] > 0 THEN rem[p][t] - 1 ELSE 0]]
    /\ sinceLast' = Min(sinceLast + 1, SendDelay)
    /\ UNCHANGED <<ledgerVars, restVars, rpc, matches, all_tasks, tpc, semaphore, sent_count,
                   skipped_count, delivered, timed, minGap>>

\* ------------------------------------------- send_alerts_for_filters_async

\* chunks that each begin with the last row of the chunk before
chunk_overlapping(rows) ==
    LET n == (Len(rows) + STOCKS_PER_MESSAGE - 1) \div STOCKS_PER_MESSAGE
    IN  [i \in 1..n |-> SubSeq(rows, IF i = 1 THEN 1 ELSE (i - 1) * STOCKS_PER_MESSAGE,
                                    Min(i * STOCKS_PER_MESSAGE, Len(rows)))]

\* chunk_dataframe(df, filter_name): df.iloc[i:i + chunk_size]
chunk_dataframe(rows) ==
    LET n == (Len(rows) + STOCKS_PER_MESSAGE - 1) \div STOCKS_PER_MESSAGE
    IN  [i \in 1..n |-> SubSeq(rows, (i - 1) * STOCKS_PER_MESSAGE + 1,
                                    Min(i * STOCKS_PER_MESSAGE, Len(rows)))]

\* the symbols of a chunk that should_send_alert lets through
symbols_to_send(chunk, filter_name, doc) ==
    LET Test(s) == NotYetSent(doc, Alert(s, filter_name)) IN SelectSeq(chunk, Test)

\* the tasks made for one filter: one for each chunk that has symbols to send
FilterTasks(filter_name, rows, doc) ==
    LET chunks == chunk_dataframe(rows)
        NonEmpty(b) == b.symbols # <<>>
    IN  SelectSeq([i \in DOMAIN chunks |->
                      [symbols |-> symbols_to_send(chunks[i], filter_name, doc),
                       filter_name |-> filter_name,
                       chunk_idx |-> i]],
                  NonEmpty)

\* all_tasks after the loop over filters_results.items(), from filter i on
RECURSIVE TasksFrom(_, _, _)
TasksFrom(i, m, doc) ==
    IF i > Len(RuleOrder) THEN <<>>
    ELSE FilterTasks(RuleOrder[i], m[RuleOrder[i]], doc) \o TasksFrom(i + 1, m, doc)

\* the chunks of which should_send_alert let no row through
SkippedChunks(m, doc) ==
    {x \in Rules \X (1..Len(AllSymbols)) :
        /\ x[2] \in DOMAIN chunk_dataframe(m[x[1]])
        /\ symbols_to_send(chunk_dataframe(m[x[1]])[x[2]], x[1], doc) = <<>>}

\* the rows for which should_send_alert answered False
SkippedRows(m, doc) ==
    {x \in Rules \X (1..Len(AllSymbols)) :
        x[2] \in DOMAIN m[x[1]] /\ ~NotYetSent(doc, Alert(m[x[1]][x[2]], x[1]))}

\* the (symbol, filter) of the tasks from i on whose result is in `marked`
RECURSIVE Marks(_, _, _, _)
Marks(i, tasks, results, marked) ==
    IF i > Len(tasks) THEN <<>>
    ELSE (IF results[i] \in marked
          THEN [k \in DOMAIN tasks[i].symbols |->
                    Alert(tasks[i].symbols[k], tasks[i].filter_name)]
          ELSE <<>>) \o Marks(i + 1, tasks, results, marked)

\* the (symbol, filter) of every task, whatever its result
marks_of_all(tasks, results) == Marks(1, tasks, results, {"True", "False"})

\* the (symbol, filter) of the delivered tasks that come before the first
\* failed one
marks_before_failure(tasks, results) ==
    LET bad == {i \in DOMAIN results : results[i] = "False"}
        n == IF bad = {} THEN Len(tasks)
             ELSE (CHOOSE i \in bad : \A j \in bad : i <= j) - 1
    IN  Marks(1, SubSeq(tasks, 1, n), SubSeq(results, 1, n), {"True"})

\* the (symbol, filter) of the tasks when each result is attributed to the
\* task at the same place of the reversed list of results
marks_by_reversed_results(tasks, results) ==
    LET reversed == [i \in DOMAIN results |-> results[Len(results) + 1 - i]]
    IN  Marks(1, tasks, reversed, {"True"})

\* the (symbol, filter) of the tasks whose send failed
marks_of_failed(tasks, results) == Marks(1, tasks, results, {"False"})

\* successful_marks after the loop over zip(results, all_tasks)
successful_marks(tasks, results) == Marks(1, tasks, results, {"True"})

\* send_alerts_for_filters_async up to `await asyncio.gather(...)`: the loop
\* over the filters, their chunks and their rows.  The first call of
\* should_send_alert loads the cache; no await lies between the calls.
Dispatch(p) ==
    /\ rpc[p] = "start"
    /\ \E ok \in GetOutcomes :
        LET called == \E r \in Rules : matches[p][r] # <<>>
            c == IF called /\ cache[p].isNone
                 THEN (IF ok THEN Cached(remote) ELSE Cached(EmptyDoc))
                 ELSE cache[p]
            tasks == TasksFrom(1, matches[p], c.doc)
        IN  /\ cache' = [cache EXCEPT ![p] = c]
            /\ all_tasks' = [all_tasks EXCEPT ![p] = tasks]
            /\ tpc' = [tpc EXCEPT ![p] = [t \in DOMAIN tasks |-> "wait"]]
            /\ rem' = [rem EXCEPT ![p] = [t \in DOMAIN tasks |-> 0]]
            /\ skipped_count' = [skipped_count EXCEPT ![p] =
                                    Cardinality(SkippedRows(matches[p], c.doc))]
            /\ rpc' = [rpc EXCEPT ![p] = IF tasks = <<>> THEN "done" ELSE "gather"]
    /\ UNCHANGED <<remote, mpc, alerts, data, attempt, result, handed, committed>>
    /\ UNCHANGED <<restVars, matches, semaphore, sent_count, delivered, timed, sinceLast, minGap>>

\* a collection of the results that leaves the counting to the commit
CollectUncounted(p) ==
    /\ rpc[p] = "gather"
    /\ \A t \in DOMAIN tpc[p] : tpc[p][t] \in {"True", "False"}
    /\ LET marks == successful_marks(all_tasks[p], tpc[p])
       IN  /\ sent_count' = [sent_count EXCEPT ![p] = 0]
           /\ IF marks # <<>>
              THEN /\ rpc' = [rpc EXCEPT ![p] = "commit"]
                   /\ mpc' = [mpc EXCEPT ![p] = "load"]
                   /\ alerts' = [alerts EXCEPT ![p] = marks]
                   /\ result' = [result EXCEPT ![p] = "none"]
              ELSE /\ rpc' = [rpc EXCEPT ![p] = "done"]
                   /\ UNCHANGED <<mpc, alerts, result>>
    /\ UNCHANGED <<remote, cache, data, attempt, handed, committed>>
    /\ UNCHANGED <<restVars, matches, all_tasks, tpc, rem, semaphore, skipped_count, delivered,
                   timed, sinceLast, minGap>>

\* gather has every result: the loop over the results, and
\* mark_multiple_as_sent(successful_marks) up to its first await
Collect(p) ==
    /\ rpc[p] = "gather"
    /\ \A t \in DOMAIN tpc[p] : tpc[p][t] \in {"True", "False"}
    /\ LET marks == successful_marks(all_tasks[p], tpc[p])
       IN  /\ sent_count' = [sent_count EXCEPT ![p] = Len(marks)]
           /\ IF marks # <<>>
              THEN /\ rpc' = [rpc EXCEPT ![p] = "commit"]
                   /\ mpc' = [mpc EXCEPT ![p] = "load"]
                   /\ alerts' = [alerts EXCEPT ![p] = marks]
                   /\ result' = [result EXCEPT ![p] = "none"]
              ELSE /\ rpc' = [rpc EXCEPT ![p] = "done"]
                   /\ UNCHANGED <<mpc, alerts, result>>
    /\ UNCHANGED <<remote, cache, data, attempt, handed, committed>>
    /\ UNCHANGED <<restVars, matches, all_tasks, tpc, rem, semaphore, skipped_count, delivered,
                   timed, sinceLast, minGap>>

\* the steps of the runs of P
NextRun(P) ==
    \/ \E p \in P : Dispatch(p)
    \/ \E p \in P : \E t \in DOMAIN tpc[p] : FormatFails(p, t)
    \/ \E p \in P : \E t \in DOMAIN tpc[p] : SendStart(p, t)
    \/ \E p \in P : \E t \in DOMAIN tpc[p] : SendAnswer(p, t)
    \/ \E p \in P : \E t \in DOMAIN tpc[p] : SendDone(p, t)
    \/ \E p \in P : \E t \in DOMAIN tpc[p] : SendRetry(p, t)
    \/ \E p \in P : \E t \in DOMAIN tpc[p] : RetryAnswer(p, t)
    \/ \E p \in P : Collect(p)
    \/ \E p \in P : MarkLoad(p)
    \/ \E p \in P : SavePatch(p)
    \/ \E p \in P : SaveReload(p)

\* the rows of a filter result: the first n symbols of the sort
Rows(n) == SubSeq(AllSymbols, 1, n)

\* filters_results of a run
MatchInputs == [Rules -> {Rows(n) : n \in 0..MaxMatches}]

\* filters_results of a run that overlaps another: rows of the first filter
OverlapInputs == {[NoMatches EXCEPT ![RuleOrder[1]] = Rows(n)] : n \in 0..MaxOverlap}

\* one run of main_async on the filter results of one fetch
InitDispatch ==
    /\ InitManagers
    /\ InitSender
    /\ InitInDispatch /\ InitOthersIdle
    /\ rpc = [p \in Procs |-> IF p = "A" THEN "start" ELSE "done"]
    /\ \E m \in MatchInputs : matches = [p \in Procs |-> IF p = "A" THEN m ELSE NoMatches]
    /\ timed = FALSE

SpecDispatch == InitDispatch /\ [][NextRun({"A"})]_vars

\* the event loop runs every coroutine that can go on: the sink answers every
\* bot.send_message, every sleep ends, and every request of the commit has a
\* total timeout of 10 seconds
SpecDispatchFair ==
    /\ SpecDispatch
    /\ WF_vars(Dispatch("A"))
    /\ WF_vars(\E t \in DOMAIN tpc["A"] : SendStart("A", t))
    /\ WF_vars(\E t \in DOMAIN tpc["A"] : SendAnswer("A", t))
    /\ WF_vars(\E t \in DOMAIN tpc["A"] : SendDone("A", t))
    /\ WF_vars(\E t \in DOMAIN tpc["A"] : SendRetry("A", t))
    /\ WF_vars(\E t \in DOMAIN tpc["A"] : RetryAnswer("A", t))
    /\ WF_vars(Collect("A"))
    /\ WF_vars(MarkLoad("A"))
    /\ WF_vars(SavePatch("A"))
    /\ WF_vars(SaveReload("A"))

\* two runs of main_async, started by two triggers, on the same day
InitRuns ==
    /\ InitManagers
    /\ InitSender
    /\ InitInDispatch /\ InitOthersIdle
    /\ rpc = [p \in Procs |-> "start"]
    /\ matches \in [Procs -> OverlapInputs]
    /\ timed = FALSE

SpecRuns == InitRuns /\ [][NextRun(Procs)]_vars

\* one run whose sleeps are measured, on the results of one filter
InitPacing ==
    /\ InitManagers
    /\ InitSender
    /\ InitInDispatch /\ InitOthersIdle
    /\ rpc = [p \in Procs |-> IF p = "A" THEN "start" ELSE "done"]
    /\ \E n \in 0..MaxMatches :
          matches = [p \in Procs |-> IF p = "A"
                                     THEN [NoMatches EXCEPT ![RuleOrder[1]] = Rows(n)]
                                     ELSE NoMatches]
    /\ timed = TRUE

NextPacing == NextRun({"A"}) \/ Tick

SpecPacing == InitPacing /\ [][NextPacing]_vars

\* ------------------------------------------------------------- main_async

\* a run's call of send_alerts_for_filters_async has returned
RunOver(p) == rpc[p] = "done" \/ (rpc[p] = "commit" /\ mpc[p] = "idle")

\* validate_config(): a missing setting raises ValueError, which the
\* `except Exception` of main_async turns into sys.exit(1)
ValidateConfig(p) ==
    /\ main_pc[p] = "validate"
    /\ \E valid \in BOOLEAN :
        IF valid
        THEN /\ main_pc' = [main_pc EXCEPT ![p] = "market"]
             /\ UNCHANGED exit_code
        ELSE /\ main_pc' = [main_pc EXCEPT ![p] = "config_error"]
             /\ exit_code' = [exit_code EXCEPT ![p] = "1"]
    /\ UNCHANGED <<ledgerVars, runVars, fetched, clock, processor, fetcher, summary, manager>>

\* MARKET_START_TIME = "08:00" and MARKET_END_TIME = "12:30", in minutes of
\* the day: "%H:%M" strings compare as the minutes do
MARKET_START_TIME == 480
MARKET_END_TIME == 750

\* WORKING_DAYS, 0 = Saturday to 6 = Friday
WORKING_DAYS == 0..6

\* is_market_open(): the weekday counted from Saturday, the holiday table,
\* and the time of day cut to the minute by strftime("%H:%M")
is_market_open(now) ==
    LET weekday == (now.weekday + 2) % 7
        current_time == now.seconds \div 60
    IN  /\ weekday \in WORKING_DAYS
        /\ ~now.holiday
        /\ MARKET_START_TIME <= current_time /\ current_time <= MARKET_END_TIME

\* a main_async that goes on to the fetch whatever is_market_open answers
MarketCheckIgnored(p) ==
    /\ main_pc[p] = "market"
    /\ main_pc' = [main_pc EXCEPT ![p] = "fetch"]
    /\ UNCHANGED exit_code
    /\ UNCHANGED <<ledgerVars, runVars, fetched, clock, processor, fetcher, summary, manager>>

\* `if not is_market_open(): return`: main_async returns when the market is
\* closed, and the process ends with exit code 0
MarketCheck(p) ==
    /\ main_pc[p] = "market"
    /\ IF is_market_open(clock[p])
       THEN /\ main_pc' = [main_pc EXCEPT ![p] = "fetch"]
            /\ UNCHANGED exit_code
       ELSE /\ main_pc' = [main_pc EXCEPT ![p] = "closed"]
            /\ exit_code' = [exit_code EXCEPT ![p] = "0"]
    /\ UNCHANGED <<ledgerVars, runVars, fetched, clock, processor, fetcher, summary, manager>>

\* fetch_all_data, process_all_data and apply_all_filters: they give the
\* filter results the dispatch is called with, or raise, which the
\* `except Exception` of main_async turns into sys.exit(1)
FetchAndFilter(p) ==
    /\ main_pc[p] = "fetch"
    /\ fetched' = [fetched EXCEPT ![p] = TRUE]
    /\ \E raised \in BOOLEAN :
        IF raised
        THEN /\ main_pc' = [main_pc EXCEPT ![p] = "crashed"]
             /\ exit_code' = [exit_code EXCEPT ![p] = "1"]
             /\ UNCHANGED <<rpc, matches>>
        ELSE /\ \E m \in MatchInputs : matches' = [matches EXCEPT ![p] = m]
             /\ rpc' = [rpc EXCEPT ![p] = "start"]
             /\ main_pc' = [main_pc EXCEPT ![p] = "dispatch"]
             /\ UNCHANGED exit_code
    /\ UNCHANGED <<ledgerVars, all_tasks, tpc, rem, semaphore, sent_count, skipped_count,
                   delivered, timed, sinceLast, minGap, clock, processor, fetcher, summary,
                   manager>>

\* a run that ends with exit code 1 when a batch or the commit failed
FinishStrict(p) ==
    /\ main_pc[p] = "dispatch"
    /\ RunOver(p)
    /\ \E reload \in BOOLEAN :
        cache' = [cache EXCEPT ![p] = IF reload THEN Cached(remote) ELSE @]
    /\ main_pc' = [main_pc EXCEPT ![p] = "completed"]
    /\ exit_code' = [exit_code EXCEPT ![p] =
            IF result[p] = "False" \/ \E t \in DOMAIN tpc[p] : tpc[p][t] = "False"
            THEN "1" ELSE "0"]
    /\ UNCHANGED <<remote, mpc, alerts, data, attempt, result, handed, committed>>
    /\ UNCHANGED <<runVars, fetched, clock, processor, fetcher, summary, manager>>

\* the dispatch has returned: get_today_stats, which reads the Gist when
\* the cache is stale and keeps the cache when the read fails, then the
\* final report and the return of main_async
Finish(p) ==
    /\ main_pc[p] = "dispatch"
    /\ RunOver(p)
    /\ \E reload \in BOOLEAN :
        cache' = [cache EXCEPT ![p] = IF reload THEN Cached(remote) ELSE @]
    /\ main_pc' = [main_pc EXCEPT ![p] = "completed"]
    /\ exit_code' = [exit_code EXCEPT ![p] = "0"]
    /\ UNCHANGED <<remote, mpc, alerts, data, attempt, result, handed, committed>>
    /\ UNCHANGED <<runVars, fetched, clock, processor, fetcher, summary, manager>>

\* main() of run q, started after run p of the same day has ended, on the
\* filter results of its own fetch
NextRunStarts(p, q) ==
    /\ rpc[q] = "idle"
    /\ RunOver(p)
    /\ \E n \in 0..MaxMatches :
          matches' = [matches EXCEPT ![q] = [NoMatches EXCEPT ![RuleOrder[1]] = Rows(n)]]
    /\ rpc' = [rpc EXCEPT ![q] = "start"]
    /\ UNCHANGED <<ledgerVars, restVars, all_tasks, tpc, rem, semaphore, sent_count,
                   skipped_count, delivered, timed, sinceLast, minGap>>

\* two runs of main_async on the same day, one after the other, each on the
\* results of one filter
InitNextRun ==
    /\ InitManagers
    /\ InitSender
    /\ InitInDispatch /\ InitOthersIdle
    /\ rpc = [p \in Procs |-> IF p = "A" THEN "start" ELSE "idle"]
    /\ \E n \in 0..MaxMatches :
          matches = [p \in Procs |-> IF p = "A"
                                     THEN [NoMatches EXCEPT ![RuleOrder[1]] = Rows(n)]
                                     ELSE NoMatches]
    /\ timed = FALSE

NextNextRun == NextRun(Procs) \/ NextRunStarts("A", "B")

SpecNextRun == InitNextRun /\ [][NextNextRun]_vars

\* the instants a run is made at: a Saturday from 07:59:59 to 12:31:00, a
\* Friday and a holiday during the hours of the market
Clocks ==
    [weekday : {5}, holiday : {FALSE}, seconds : {28799, 28800, 45059, 45060}]
    \cup [weekday : {4}, holiday : {FALSE}, seconds : {28800}]
    \cup [weekday : {5}, holiday : {TRUE}, seconds : {28800}]

\* one run of the program from its start
InitMain ==
    /\ InitManagers
    /\ InitSender
    /\ InitOthersIdle
    /\ main_pc = [p \in Procs |-> IF p = "A" THEN "validate" ELSE "completed"]
    /\ exit_code = [p \in Procs |-> IF p = "A" THEN "none" ELSE "0"]
    /\ fetched = [p \in Procs |-> FALSE]
    /\ \E now \in Clocks : clock = [p \in Procs |-> IF p = "A" THEN now ELSE OpenClock]
    /\ rpc = [p \in Procs |-> "idle"]
    /\ matches = [p \in Procs |-> NoMatches]
    /\ timed = FALSE

NextMain ==
    \/ ValidateConfig("A")
    \/ MarketCheck("A")
    \/ FetchAndFilter("A")
    \/ Finish("A")
    \/ NextRun({"A"})

SpecMain == InitMain /\ [][NextMain]_vars

\* ----------------------------------------------------- BourseDataProcessor

\* the ratios of the table and their thresholds are in tenths (1.6 is 16),
\* the percentages in hundredths (2.99 is 299), sarane_kharid, sarane_forosh
\* and buy_order in million Toman as in the source

\* the value pd.to_numeric(errors="coerce") gives a cell that holds no
\* number, and a merge gives a cell without a partner: it is below every
\* number of the tables, and no comparison with it is true
NaN == 0 - 1000

\* the comparisons of pandas: False when a side is NaN
gt(a, b) == a # NaN /\ b # NaN /\ a > b
ge(a, b) == a # NaN /\ b # NaN /\ a >= b
lt(a, b) == a # NaN /\ b # NaN /\ a < b
eq(a, b) == a # NaN /\ b # NaN /\ a = b

\* the arithmetic of pandas: NaN when a side is NaN
times(k, a) == IF a = NaN THEN NaN ELSE k * a
minus(a, b) == IF a = NaN \/ b = NaN THEN NaN ELSE a - b

\* config.STRONG_BUYING_CONFIG
STRONG_BUYING_CONFIG ==
    [min_value_to_avg_monthly |-> 20, min_sarane_kharid |-> 50, min_godrat_kharid |-> 10]

\* config.SARANE_CROSS_CONFIG: it has no min_sarane_kharid
SARANE_CROSS_CONFIG == [min_value_to_avg_monthly |-> 5]

\* config.WATCHLIST_SYMBOLS, in the order of the dict, of two symbols
WATCHLIST_SYMBOLS ==
    <<[symbol |-> "AAA", threshold |-> 299], [symbol |-> "BBB", threshold |-> 299]>>

\* config.POL_HAGIGI_FILTER_CONFIG
POL_HAGIGI_FILTER_CONFIG ==
    [min_pol_to_value_ratio |-> 5, min_sarane_kharid |-> 50, min_godrat_kharid |-> 15]

\* config.TICK_FILTER_CONFIG, the ratios in hundredths
TICK_FILTER_CONFIG ==
    [first_to_low_ratio |-> 98, last_to_first_ratio |-> 98, tick_diff_percent |-> 200]

\* config.SUSPICIOUS_VOLUME_CONFIG
SUSPICIOUS_VOLUME_CONFIG == [min_value_to_avg_ratio |-> 20]

\* config.SWING_TRADE_CONFIG
SWING_TRADE_CONFIG ==
    [min_allowed_price |-> 0 - 300, max_last_change_percent |-> 0 - 200,
     min_godrat_kharid |-> 20, min_sarane_kharid |-> 50, min_value_to_avg_monthly |-> 10]

\* config.FIRST_HOUR_CONFIG
FIRST_HOUR_CONFIG == [min_value_to_avg_ratio |-> 10, start_hour |-> 9, end_hour |-> 10]

\* config.HEAVY_BUY_QUEUE_CONFIG
HEAVY_BUY_QUEUE_CONFIG == [min_buy_order |-> 70, min_buy_queue_value |-> 100]

\* the rule configurations a processor runs with: the ones of config.py, the
\* strong-buying thresholds (1, 50, 1), and a SARANE_CROSS_CONFIG to which
\* the missing field was added
RuleConfigs ==
    [strong : {STRONG_BUYING_CONFIG,
               [STRONG_BUYING_CONFIG EXCEPT !.min_value_to_avg_monthly = 10]},
     cross : {SARANE_CROSS_CONFIG,
              [min_value_to_avg_monthly |-> 5, min_sarane_kharid |-> 50]}]

\* the hour of Tehran the time-gated rule reads
Hours == 8..10

\* the columns of buying power of a row of df_api1: every buy power with a
\* high value ratio and buy per capita, and a lower value ratio or buy per
\* capita with a buy power above its threshold
BuyingColumns ==
    [value_to_avg_monthly_value : {25},
     sarane_kharid : {60},
     sarane_forosh : {50},
     godrat_kharid : {8, 12, 20, NaN},
     day5_godrat_kharid : {9}]
    \cup
    [value_to_avg_monthly_value : {16},
     sarane_kharid : {60},
     sarane_forosh : {50},
     godrat_kharid : {12, 20},
     day5_godrat_kharid : {9}]
    \cup
    [value_to_avg_monthly_value : {25},
     sarane_kharid : {40},
     sarane_forosh : {50},
     godrat_kharid : {20},
     day5_godrat_kharid : {9}]

\* the columns of price and money flow of a row of df_api1: a calm day, a
\* day of a rising last price, a day that touched the lowest allowed price,
\* and a row without these numbers
CalmDay ==
    [first_price |-> 100, low_price |-> 99, last_price |-> 100,
     last_price_change_percent |-> 100, final_price_change_percent |-> 100,
     low_price_change_percent |-> 0 - 50, pol_hagigi_to_avg_monthly_value |-> 3]
RisingDay ==
    [first_price |-> 100, low_price |-> 95, last_price |-> 105,
     last_price_change_percent |-> 450, final_price_change_percent |-> 200,
     low_price_change_percent |-> 0 - 100, pol_hagigi_to_avg_monthly_value |-> 6]
SwingDay ==
    [first_price |-> 100, low_price |-> 97, last_price |-> 98,
     last_price_change_percent |-> 0 - 250, final_price_change_percent |-> 0 - 280,
     low_price_change_percent |-> 0 - 300, pol_hagigi_to_avg_monthly_value |-> 7]
UnknownDay ==
    [first_price |-> 100, low_price |-> NaN, last_price |-> 105,
     last_price_change_percent |-> NaN, final_price_change_percent |-> 200,
     low_price_change_percent |-> NaN, pol_hagigi_to_avg_monthly_value |-> NaN]

\* the row of the strongest buying power
StrongBuying ==
    [value_to_avg_monthly_value |-> 25, sarane_kharid |-> 60, sarane_forosh |-> 50,
     godrat_kharid |-> 20, day5_godrat_kharid |-> 9]

\* the row of the weakest buying power
WeakBuying ==
    [value_to_avg_monthly_value |-> 8, sarane_kharid |-> 40, sarane_forosh |-> 50,
     godrat_kharid |-> 8, day5_godrat_kharid |-> 9]

\* the rows of df_api1 of a symbol, with the columns the rules read: every
\* buying power on a calm day, the weakest too, and the strongest on the
\* other days
RowsOf(symbol) ==
    {[symbol |-> symbol] @@ b @@ CalmDay : b \in BuyingColumns \cup {WeakBuying}}
        \cup {[symbol |-> symbol] @@ StrongBuying @@ d : d \in {RisingDay, SwingDay, UnknownDay}}

\* the tables process_all_data gives for the first provider: one row per symbol
Tables ==
    UNION {{t \in [1..n -> UNION {RowsOf(AllSymbols[i]) : i \in 1..n}] :
                \A i \in 1..n : t[i].symbol = AllSymbols[i]} : n \in 0..MaxRows}

\* the rows of the second provider after _clean_and_prepare_api2: a symbol at
\* its ceiling with a heavy queue, one below its ceiling, one at its ceiling
\* that the first provider does not list, one without buy_order
QueueRows ==
    <<[symbol |-> "AAA", last_price |-> 110, ceiling_price |-> 110,
       buy_order |-> 80, buy_queue_value |-> 120],
      [symbol |-> "BBB", last_price |-> 105, ceiling_price |-> 110,
       buy_order |-> 90, buy_queue_value |-> 300],
      [symbol |-> "EEE", last_price |-> 110, ceiling_price |-> 110,
       buy_order |-> 75, buy_queue_value |-> 150],
      [symbol |-> "DDD", last_price |-> 110, ceiling_price |-> 110,
       buy_order |-> NaN, buy_queue_value |-> 200]>>

\* the tables process_all_data gives for the second provider
Tables2 == {<<>>, QueueRows}

\* a frame that is left in the order of its rows
unsorted_values(df, by) == df

\* df.sort_values(by, ascending=False): rows of equal key keep their order
RECURSIVE sort_values(_, _)
sort_values(df, by) ==
    IF df = <<>> THEN <<>>
    ELSE LET x == Head(df)
             sorted == sort_values(Tail(df), by)
             greater(r) == r[by] > x[by]
             notGreater(r) == r[by] <= x[by]
         IN  SelectSeq(sorted, greater) \o <<x>> \o SelectSeq(sorted, notGreater)

\* filter_1_strong_buying_power
filter_1_strong_buying_power(df, config) ==
    LET cond(r) == /\ gt(r.value_to_avg_monthly_value, config.min_value_to_avg_monthly)
                   /\ gt(r.sarane_kharid, config.min_sarane_kharid)
                   /\ gt(r.godrat_kharid, config.min_godrat_kharid)
                   /\ gt(r.godrat_kharid, times(2, r.day5_godrat_kharid))
    IN  IF df = <<>> THEN df
        ELSE sort_values(SelectSeq(df, cond), "sarane_kharid")

\* filter_2_sarane_kharid_cross raises KeyError: config[...] of a key the
\* configuration does not have
filter_2_raises(df, config) ==
    /\ df # <<>>
    /\ ~({"min_value_to_avg_monthly", "min_sarane_kharid"} \subseteq DOMAIN config)

\* filter_2_sarane_kharid_cross, when it returns
filter_2_sarane_kharid_cross(df, config) ==
    LET cond(r) == /\ gt(r.sarane_kharid, r.sarane_forosh)
                   /\ ge(r.value_to_avg_monthly_value, config.min_value_to_avg_monthly)
                   /\ ge(r.sarane_kharid, config.min_sarane_kharid)
    IN  IF df = <<>> THEN df
        ELSE sort_values(SelectSeq(df, cond), "sarane_kharid")

\* filter_3_watchlist_symbols: of every symbol of the watchlist the first row
\* of the table, when its last price change is above the threshold, with the
\* threshold as a column
filter_3_watchlist_symbols(df, watchlist) ==
    LET found(w) == SelectSeq(df, LAMBDA r : r.symbol = w.symbol)
        hit(w) == /\ found(w) # <<>>
                  /\ gt(Head(found(w)).last_price_change_percent, w.threshold)
        hits == SelectSeq(watchlist, hit)
        filtered_list == [k \in 1..Len(hits) |->
                            [threshold |-> hits[k].threshold] @@ Head(found(hits[k]))]
    IN  IF df = <<>> THEN df
        ELSE sort_values(filtered_list, "last_price_change_percent")

\* filter_4_heavy_buy_queue_at_ceiling
filter_4_heavy_buy_queue_at_ceiling(df) == <<>>

\* filter_5_pol_hagigi_ratio
filter_5_pol_hagigi_ratio(df, config) ==
    LET cond(r) == /\ ge(r.pol_hagigi_to_avg_monthly_value, config.min_pol_to_value_ratio)
                   /\ ge(r.sarane_kharid, config.min_sarane_kharid)
                   /\ ge(r.godrat_kharid, config.min_godrat_kharid)
    IN  IF df = <<>> THEN df
        ELSE sort_values(SelectSeq(df, cond), "pol_hagigi_to_avg_monthly_value")

\* filter_6_tick_and_time: the column tick_diff is added to a copy of the table
filter_6_tick_and_time(df, config) ==
    LET df_copy == [k \in 1..Len(df) |->
                        [tick_diff |-> minus(df[k].last_price_change_percent,
                                             df[k].final_price_change_percent)] @@ df[k]]
        cond(r) == /\ gt(times(config.first_to_low_ratio, r.first_price), times(100, r.low_price))
                   /\ gt(times(config.last_to_first_ratio, r.last_price), times(100, r.first_price))
                   /\ gt(r.tick_diff, config.tick_diff_percent)
    IN  IF df = <<>> THEN df
        ELSE sort_values(SelectSeq(df_copy, cond), "tick_diff")

\* filter_7_suspicious_volume
filter_7_suspicious_volume(df, config) ==
    LET cond(r) == gt(r.value_to_avg_monthly_value, config.min_value_to_avg_ratio)
    IN  IF df = <<>> THEN df
        ELSE sort_values(SelectSeq(df, cond), "value_to_avg_monthly_value")

\* filter_8_swing_trade
filter_8_swing_trade(df, config) ==
    LET cond(r) == /\ eq(r.low_price_change_percent, config.min_allowed_price)
                   /\ gt(r.last_price_change_percent, config.min_allowed_price)
                   /\ ge(r.godrat_kharid, config.min_godrat_kharid)
                   /\ ge(r.sarane_kharid, config.min_sarane_kharid)
                   /\ ge(r.value_to_avg_monthly_value, config.min_value_to_avg_monthly)
                   /\ lt(r.last_price_change_percent, config.max_last_change_percent)
    IN  IF df = <<>> THEN df
        ELSE sort_values(SelectSeq(df, cond), "godrat_kharid")

\* a first-hour rule that drops the rows the evaluation before it matched
filter_9_once(df, config, current_hour, before) ==
    LET cond(r) == /\ ge(r.value_to_avg_monthly_value, config.min_value_to_avg_ratio)
                   /\ \/ "filter_9_first_hour" \notin DOMAIN before
                      \/ r \notin Range(before["filter_9_first_hour"])
    IN  IF df = <<>> THEN df
        ELSE IF ~(config.start_hour <= current_hour /\ current_hour < config.end_hour)
             THEN <<>>
             ELSE sort_values(SelectSeq(df, cond), "value_to_avg_monthly_value")

\* a first-hour rule whose window holds end_hour
filter_9_until_end(df, config, current_hour, before) ==
    LET cond(r) == ge(r.value_to_avg_monthly_value, config.min_value_to_avg_ratio)
    IN  IF df = <<>> THEN df
        ELSE IF ~(config.start_hour <= current_hour /\ current_hour <= config.end_hour)
             THEN <<>>
             ELSE sort_values(SelectSeq(df, cond), "value_to_avg_monthly_value")

\* filter_9_first_hour; current_hour is the hour of Tehran now, before is
\* the filters_results of self, which the rule has at hand and does not read
filter_9_first_hour(df, config, current_hour, before) ==
    LET cond(r) == ge(r.value_to_avg_monthly_value, config.min_value_to_avg_ratio)
    IN  IF df = <<>> THEN df
        ELSE IF ~(config.start_hour <= current_hour /\ current_hour < config.end_hour)
             THEN <<>>
             ELSE sort_values(SelectSeq(df, cond), "value_to_avg_monthly_value")

\* filter_10_heavy_buy_queue: the rows of the second provider at their
\* ceiling with a heavy queue, each merged (how="left") with the columns of
\* the row of the first provider of the same symbol, NaN when there is none
filter_10_heavy_buy_queue(df_api2, df_api1, config) ==
    LET cond(r) == /\ eq(r.last_price, r.ceiling_price)
                   /\ ge(r.buy_order, config.min_buy_order)
                   /\ ge(r.buy_queue_value, config.min_buy_queue_value)
        filtered_api2 == SelectSeq(df_api2, cond)
        columns_from_api1 == {"sarane_kharid", "value_to_avg_monthly_value",
                              "godrat_kharid", "sarane_forosh"}
        partner(r) == SelectSeq(df_api1, LAMBDA x : x.symbol = r.symbol)
        enrich(r) == r @@ [c \in columns_from_api1 |->
                              IF partner(r) = <<>> THEN NaN ELSE Head(partner(r))[c]]
        enriched == [k \in 1..Len(filtered_api2) |-> enrich(filtered_api2[k])]
    IN  IF df_api2 = <<>> THEN df_api2
        ELSE IF df_api1 = <<>> THEN sort_values(filtered_api2, "buy_queue_value")
        ELSE sort_values(enriched, "buy_queue_value")

\* a dict without keys
EmptyDict == [k \in {} |-> <<>>]

\* the values of the dict results["api1"] of apply_all_filters, in the order
\* they are evaluated
api1_results(df, config, current_hour, before) ==
    [filter_1_strong_buying |-> filter_1_strong_buying_power(df, config.strong),
     filter_2_sarane_cross |-> filter_2_sarane_kharid_cross(df, config.cross),
     filter_3_watchlist |-> filter_3_watchlist_symbols(df, WATCHLIST_SYMBOLS),
     filter_4_ceiling_queue |-> filter_4_heavy_buy_queue_at_ceiling(df),
     filter_5_pol_hagigi_ratio |-> filter_5_pol_hagigi_ratio(df, POL_HAGIGI_FILTER_CONFIG),
     filter_6_tick_time |-> filter_6_tick_and_time(df, TICK_FILTER_CONFIG),
     filter_7_suspicious_volume |-> filter_7_suspicious_volume(df, SUSPICIOUS_VOLUME_CONFIG),
     filter_8_swing_trade |-> filter_8_swing_trade(df, SWING_TRADE_CONFIG),
     filter_9_first_hour |-> filter_9_first_hour(df, FIRST_HOUR_CONFIG, current_hour, before)]

\* the dict results["api2"] of apply_all_filters
api2_results(df_api2, df_api1) ==
    IF df_api2 = <<>> THEN EmptyDict
    ELSE [filter_10_heavy_buy_queue |->
            filter_10_heavy_buy_queue(df_api2, df_api1, HEAVY_BUY_QUEUE_CONFIG)]

\* the column each rule gives to sort_values; filter_4 sorts nothing
ranking_key ==
    [filter_1_strong_buying |-> "sarane_kharid",
     filter_2_sarane_cross |-> "sarane_kharid",
     filter_3_watchlist |-> "last_price_change_percent",
     filter_5_pol_hagigi_ratio |-> "pol_hagigi_to_avg_monthly_value",
     filter_6_tick_time |-> "tick_diff",
     filter_7_suspicious_volume |-> "value_to_avg_monthly_value",
     filter_8_swing_trade |-> "godrat_kharid",
     filter_9_first_hour |-> "value_to_avg_monthly_value",
     filter_10_heavy_buy_queue |-> "buy_queue_value"]

\* the condition each rule puts on a row r of its table
rule_predicate(k, r, config, current_hour) ==
    CASE k = "filter_1_strong_buying" ->
            /\ gt(r.value_to_avg_monthly_value, config.strong.min_value_to_avg_monthly)
            /\ gt(r.sarane_kharid, config.strong.min_sarane_kharid)
            /\ gt(r.godrat_kharid, config.strong.min_godrat_kharid)
            /\ gt(r.godrat_kharid, times(2, r.day5_godrat_kharid))
      [] k = "filter_2_sarane_cross" ->
            /\ gt(r.sarane_kharid, r.sarane_forosh)
            /\ ge(r.value_to_avg_monthly_value, config.cross.min_value_to_avg_monthly)
            /\ ge(r.sarane_kharid, config.cross.min_sarane_kharid)
      [] k = "filter_3_watchlist" ->
            \E i \in 1..Len(WATCHLIST_SYMBOLS) :
                /\ WATCHLIST_SYMBOLS[i].symbol = r.symbol
                /\ gt(r.last_price_change_percent, WATCHLIST_SYMBOLS[i].threshold)
      [] k = "filter_4_ceiling_queue" -> FALSE
      [] k = "filter_5_pol_hagigi_ratio" ->
            /\ ge(r.pol_hagigi_to_avg_monthly_value, POL_HAGIGI_FILTER_CONFIG.min_pol_to_value_ratio)
            /\ ge(r.sarane_kharid, POL_HAGIGI_FILTER_CONFIG.min_sarane_kharid)
            /\ ge(r.godrat_kharid, POL_HAGIGI_FILTER_CONFIG.min_godrat_kharid)
      [] k = "filter_6_tick_time" ->
            /\ gt(times(TICK_FILTER_CONFIG.first_to_low_ratio, r.first_price), times(100, r.low_price))
            /\ gt(times(TICK_FILTER_CONFIG.last_to_first_ratio, r.last_price), times(100, r.first_price))
            /\ gt(minus(r.last_price_change_percent, r.final_price_change_percent),
                  TICK_FILTER_CONFIG.tick_diff_percent)
      [] k = "filter_7_suspicious_volume" ->
            gt(r.value_to_avg_monthly_value, SUSPICIOUS_VOLUME_CONFIG.min_value_to_avg_ratio)
      [] k = "filter_8_swing_trade" ->
            /\ eq(r.low_price_change_percent, SWING_TRADE_CONFIG.min_allowed_price)
            /\ gt(r.last_price_change_percent, SWING_TRADE_CONFIG.min_allowed_price)
            /\ ge(r.godrat_kharid, SWING_TRADE_CONFIG.min_godrat_kharid)
            /\ ge(r.sarane_kharid, SWING_TRADE_CONFIG.min_sarane_kharid)
            /\ ge(r.value_to_avg_monthly_value, SWING_TRADE_CONFIG.min_value_to_avg_monthly)
            /\ lt(r.last_price_change_percent, SWING_TRADE_CONFIG.max_last_change_percent)
      [] k = "filter_9_first_hour" ->
            /\ FIRST_HOUR_CONFIG.start_hour <= current_hour
            /\ current_hour < FIRST_HOUR_CONFIG.end_hour
            /\ ge(r.value_to_avg_monthly_value, FIRST_HOUR_CONFIG.min_value_to_avg_ratio)
      [] k = "filter_10_heavy_buy_queue" ->
            /\ eq(r.last_price, r.ceiling_price)
            /\ ge(r.buy_order, HEAVY_BUY_QUEUE_CONFIG.min_buy_order)
            /\ ge(r.buy_queue_value, HEAVY_BUY_QUEUE_CONFIG.min_buy_queue_value)

\* the table a rule is evaluated on
table_of(k, df_api1, df_api2) ==
    IF k = "filter_10_heavy_buy_queue" THEN df_api2 ELSE df_api1

\* the columns the condition of each rule reads
required_columns ==
    [filter_1_strong_buying |-> {"value_to_avg_monthly_value", "sarane_kharid",
                                 "godrat_kharid", "day5_godrat_kharid"},
     filter_2_sarane_cross |-> {"sarane_kharid", "sarane_forosh", "value_to_avg_monthly_value"},
     filter_3_watchlist |-> {"last_price_change_percent"},
     filter_4_ceiling_queue |-> {},
     filter_5_pol_hagigi_ratio |-> {"pol_hagigi_to_avg_monthly_value", "sarane_kharid",
                                    "godrat_kharid"},
     filter_6_tick_time |-> {"first_price", "low_price", "last_price",
                             "last_price_change_percent", "final_price_change_percent"},
     filter_7_suspicious_volume |-> {"value_to_avg_monthly_value"},
     filter_8_swing_trade |-> {"low_price_change_percent", "last_price_change_percent",
                               "godrat_kharid", "sarane_kharid", "value_to_avg_monthly_value"},
     filter_9_first_hour |-> {"value_to_avg_monthly_value"},
     filter_10_heavy_buy_queue |-> {"last_price", "ceiling_price", "buy_order", "buy_queue_value"}]

\* what the rules write to the log about their results: the number of rows
\* found
rule_log(results) == [k \in DOMAIN results |-> [found |-> Len(results[k])]]

\* apply_all_filters(df_api1, df_api2): an empty table gives no results of
\* its provider; an exception of a rule leaves the method before results is
\* assigned to self.filters_results. evaluated holds the values of the dicts
\* that were computed when the method was left; the dicts of the two
\* providers are kept as one, their keys differ.
apply_all_filters ==
    /\ processor.pc # "idle"
    /\ processor.calls < MaxCalls
    /\ \E current_hour \in Hours :
        LET df == processor.df_api1
            config == processor.config
            before == processor.filters_results
            results == (IF df = <<>> THEN EmptyDict
                        ELSE api1_results(df, config, current_hour, before))
                            @@ api2_results(processor.df_api2, df)
        IN  processor' =
              IF filter_2_raises(df, config.cross)
              THEN [processor EXCEPT !.pc = "raised", !.calls = @ + 1,
                                     !.hour = current_hour,
                                     !.evaluated =
                                        [k \in {"filter_1_strong_buying"} |->
                                            filter_1_strong_buying_power(df, config.strong)],
                                     !.log = rule_log(
                                        [k \in {"filter_1_strong_buying"} |->
                                            filter_1_strong_buying_power(df, config.strong)])]
              ELSE [processor EXCEPT !.pc = "returned", !.calls = @ + 1,
                                     !.hour = current_hour,
                                     !.evaluated = results,
                                     !.log = rule_log(results),
                                     !.filters_results = results]
    /\ UNCHANGED <<ledgerVars, runVars, mainVars, fetcher, summary, manager>>

\* BourseDataProcessor() and the tables and the configuration it works with
InitProcessor ==
    processor \in [pc : {"ready"}, df_api1 : Tables, df_api2 : Tables2,
                   config : RuleConfigs, hour : {0}, calls : {0},
                   evaluated : {EmptyDict}, log : {EmptyDict},
                   filters_results : {EmptyDict}]

\* no run touches the ledger
InitQuietLedger == InitManagers /\ remote = Put(EmptyDoc, today_jalali, <<>>)

InitFilters ==
    /\ InitQuietLedger
    /\ InitNoRun
    /\ InitProcessor
    /\ fetcher = Idle /\ summary = Idle /\ manager = Idle

NextFilters == apply_all_filters

SpecFilters == InitFilters /\ [][NextFilters]_vars

\* ---------------------------------------------------- the rules one by one

\* the names of the rules
RuleNames == DOMAIN ranking_key \cup {"filter_4_ceiling_queue"}

\* the call of the method of rule k
rule_result(k, df_api1, df_api2, config, current_hour) ==
    CASE k = "filter_1_strong_buying" -> filter_1_strong_buying_power(df_api1, config.strong)
      [] k = "filter_2_sarane_cross" -> filter_2_sarane_kharid_cross(df_api1, config.cross)
      [] k = "filter_3_watchlist" -> filter_3_watchlist_symbols(df_api1, WATCHLIST_SYMBOLS)
      [] k = "filter_4_ceiling_queue" -> filter_4_heavy_buy_queue_at_ceiling(df_api1)
      [] k = "filter_5_pol_hagigi_ratio" -> filter_5_pol_hagigi_ratio(df_api1, POL_HAGIGI_FILTER_CONFIG)
      [] k = "filter_6_tick_time" -> filter_6_tick_and_time(df_api1, TICK_FILTER_CONFIG)
      [] k = "filter_7_suspicious_volume" -> filter_7_suspicious_volume(df_api1, SUSPICIOUS_VOLUME_CONFIG)
      [] k = "filter_8_swing_trade" -> filter_8_swing_trade(df_api1, SWING_TRADE_CONFIG)
      [] k = "filter_9_first_hour" ->
            filter_9_first_hour(df_api1, FIRST_HOUR_CONFIG, current_hour, EmptyDict)
      [] k = "filter_10_heavy_buy_queue" ->
            filter_10_heavy_buy_queue(df_api2, df_api1, HEAVY_BUY_QUEUE_CONFIG)

\* a filter_6 that adds its column tick_diff to the frame it was given
frame_after_in_place(k, df) ==
    IF k = "filter_6_tick_time"
    THEN [i \in 1..Len(df) |->
            [tick_diff |-> minus(df[i].last_price_change_percent,
                                 df[i].final_price_change_percent)] @@ df[i]]
    ELSE df

\* the frame a rule was given, after the call: every rule works on a copy
\* (df[mask].copy(), df.copy() in filter_6, to_frame() in filter_3) and
\* assigns to no column of df
frame_after(k, df) == df

\* one rule is called on the tables of the processor, in any order, a rule
\* more than once too; a rule that raises gives no result
evaluate_rule ==
    /\ processor.pc = "rules"
    /\ processor.calls < MaxEvaluations
    /\ \E k \in RuleNames :
        processor' =
          IF k = "filter_2_sarane_cross" /\ filter_2_raises(processor.df_api1, processor.config.cross)
          THEN [processor EXCEPT !.calls = @ + 1, !.last = k, !.raised = TRUE]
          ELSE [processor EXCEPT !.calls = @ + 1, !.last = k, !.raised = FALSE,
                                 !.evaluated =
                                    [x \in {k} |-> rule_result(k, processor.df_api1, processor.df_api2,
                                                               processor.config, processor.hour)],
                                 !.df_api1 = frame_after(k, processor.df_api1)]
    /\ UNCHANGED <<ledgerVars, runVars, mainVars, fetcher, summary, manager>>

\* the rows of a symbol the rules are called on one by one
RowsOfRules(symbol) ==
    {[symbol |-> symbol] @@ b @@ d :
        b \in {StrongBuying}, d \in {CalmDay, RisingDay, SwingDay, UnknownDay}}
        \cup {[symbol |-> symbol] @@ WeakBuying @@ CalmDay}

TablesOfRules ==
    UNION {{t \in [1..n -> UNION {RowsOfRules(AllSymbols[i]) : i \in 1..n}] :
                \A i \in 1..n : t[i].symbol = AllSymbols[i]} : n \in 1..MaxRows}

\* a processor and its tables; given is the table as it was handed over
InitRules ==
    /\ InitQuietLedger
    /\ InitNoRun
    /\ fetcher = Idle /\ summary = Idle /\ manager = Idle
    /\ \E t \in TablesOfRules, c \in RuleConfigs, h \in Hours :
        processor = [pc |-> "rules", df_api1 |-> t, given |-> t, df_api2 |-> QueueRows,
                     config |-> c, hour |-> h, calls |-> 0, last |-> "none",
                     raised |-> FALSE, evaluated |-> EmptyDict]

NextRules == evaluate_rule

SpecRules == InitRules /\ [][NextRules]_vars

\* ------------------------------------------------------- process_all_data

\* a cell of the raw table that holds text which is no number
NonNumeric == 0 - 2000

\* pd.to_numeric(errors="coerce"): text that is no number and null give NaN
to_numeric(c) == IF c = NonNumeric THEN NaN ELSE c

\* column / k for a constant k
divided(a, k) == IF a = NaN THEN NaN ELSE a \div k

\* a / b of two floats, b not zero: NaN when a side is NaN.  The ratio of two
\* amounts is in tenths.
quotient(a, b) == IF a = NaN \/ b = NaN THEN NaN ELSE (10 * a) \div b

\* the lambda of df.apply for pol_hagigi_to_avg_monthly_value
ratio_of_row(pol_hagigi, avg_monthly_value) ==
    IF avg_monthly_value # 0 /\ avg_monthly_value # NaN
    THEN quotient(pol_hagigi, avg_monthly_value) ELSE 0

\* _clean_and_prepare_api1: the amounts arrive in billion Rial and leave in
\* ten billion Toman (column / 10_000_000_000 of a column in Rial); a table
\* without the two columns gets the ratio 0
clean_and_prepare_api1(df) ==
    [i \in DOMAIN df |->
        IF {"pol_hagigi", "avg_monthly_value"} \subseteq DOMAIN df[i]
        THEN LET pol_hagigi == divided(to_numeric(df[i].pol_hagigi), 10)
                 avg_monthly_value == divided(to_numeric(df[i].avg_monthly_value), 10)
             IN  [symbol |-> df[i].symbol,
                  pol_hagigi |-> pol_hagigi,
                  avg_monthly_value |-> avg_monthly_value,
                  pol_hagigi_to_avg_monthly_value |->
                      ratio_of_row(pol_hagigi, avg_monthly_value)]
        ELSE df[i] @@ [pol_hagigi_to_avg_monthly_value |-> 0]]

\* (qd1 * pd1 / zd1) / 10_000_000 in million Toman; qd1, pd1 and zd1 are
\* used as the provider gave them, null being NaN
buy_order_of(qd1, pd1, zd1) ==
    IF zd1 # 0 /\ zd1 # NaN
    THEN (IF qd1 = NaN \/ pd1 = NaN THEN NaN ELSE ((qd1 * pd1) \div zd1) \div 10000000)
    ELSE 0

\* (qd1 * pd1) / 10_000_000_000, in hundredths of a billion Toman
buy_queue_value_of(qd1, pd1) ==
    IF qd1 = NaN \/ pd1 = NaN THEN NaN ELSE (qd1 * pd1) \div 100000000

\* _clean_and_prepare_api2: l18 becomes symbol, pl last_price, tmax
\* ceiling_price
clean_and_prepare_api2(df) ==
    [i \in DOMAIN df |->
        [symbol |-> df[i].l18,
         last_price |-> df[i].pl,
         ceiling_price |-> df[i].tmax,
         buy_order |-> buy_order_of(df[i].qd1, df[i].pd1, df[i].zd1),
         buy_queue_value |-> buy_queue_value_of(df[i].qd1, df[i].pd1)]]

\* process_all_data(df_api1_raw, df_api2_raw): an empty table stays empty
process_all_data ==
    /\ processor.pc = "raw"
    /\ processor' = [processor EXCEPT
            !.pc = "normalized",
            !.df_api1 = clean_and_prepare_api1(processor.raw_api1),
            !.df_api2 = clean_and_prepare_api2(processor.raw_api2)]
    /\ UNCHANGED <<ledgerVars, runVars, mainVars, fetcher, summary, manager>>

\* the rows of the first provider: amounts in billion Rial, text or null
RawRows1(symbol) ==
    [symbol : {symbol},
     pol_hagigi : {0 - 200, 0, 300, NaN, NonNumeric},
     avg_monthly_value : {0, 100, NaN, NonNumeric}]

\* tables of the first provider: one row per symbol, or rows without the
\* two columns
RawTables1 ==
    UNION {{t \in [1..n -> UNION {RawRows1(x) : x \in Symbols}] :
                \A i \in 1..n : t[i].symbol = AllSymbols[i]} : n \in 0..MaxRows}
        \cup {<<[symbol |-> "AAA"]>>}

\* a row of the second provider: the first buy order of the book
RawRows2 ==
    [l18 : {"AAA"}, pl : {110}, tmax : {110},
     qd1 : {0, 40000000, NaN}, pd1 : {50}, zd1 : {0, 4, NaN}]

RawTables2 == {<<>>} \cup {<<r>> : r \in RawRows2}

InitNormalize ==
    /\ InitQuietLedger
    /\ InitNoRun
    /\ processor \in [pc : {"raw"}, raw_api1 : RawTables1, raw_api2 : RawTables2,
                      df_api1 : {<<>>}, df_api2 : {<<>>}]
    /\ fetcher = Idle /\ summary = Idle /\ manager = Idle

NextNormalize == process_all_data

SpecNormalize == InitNormalize /\ [][NextNormalize]_vars

\* ------------------------------------------------------ daily_summary_main

\* should_send_summary(): the clock of Tehran is at 12:30 or later
should_send_summary == summary.after_1230

\* main_async of daily_summary_main, one invocation of the job: before 12:30
\* it returns; without GIST_TOKEN and GIST_ID it exits 1; otherwise
\* generate_and_send reads today's alerts from the Gist (a failed read gives
\* no alerts), formats the message, which it does also when there is no
\* frequent symbol, and sends it with TelegramAlert.send_message; the Gist is
\* only read
SummaryInvoke ==
    /\ summary.pc # "idle"
    /\ summary.invocations < MaxInvocations
    /\ \E configured, success \in BOOLEAN :
        summary' =
          IF ~should_send_summary
          THEN [summary EXCEPT !.invocations = @ + 1, !.exit = "0"]
          ELSE IF ~configured
          THEN [summary EXCEPT !.invocations = @ + 1, !.exit = "1"]
          ELSE IF success
          THEN [summary EXCEPT !.invocations = @ + 1, !.exit = "0",
                               !.sent[summary.day] = @ + 1]
          ELSE [summary EXCEPT !.invocations = @ + 1, !.exit = "1"]
    /\ UNCHANGED <<ledgerVars, runVars, mainVars, processor, fetcher, manager>>

\* the clock of Tehran passes 12:30, or midnight
SummaryClock ==
    /\ summary.pc # "idle"
    /\ \/ /\ ~summary.after_1230
          /\ summary' = [summary EXCEPT !.after_1230 = TRUE]
       \/ /\ summary.after_1230
          /\ summary.day < MaxSummaryDays
          /\ summary' = [summary EXCEPT !.after_1230 = FALSE, !.day = @ + 1]
    /\ UNCHANGED <<ledgerVars, runVars, mainVars, processor, fetcher, manager>>

\* the scheduler has not invoked the job yet
InitSummary ==
    /\ InitManagers
    /\ InitNoRun
    /\ processor = Idle /\ fetcher = Idle /\ manager = Idle
    /\ summary = [pc |-> "scheduled", day |-> 1, after_1230 |-> FALSE,
                  invocations |-> 0, exit |-> "none",
                  sent |-> [d \in 1..MaxSummaryDays |-> 0]]

NextSummary == SummaryInvoke \/ SummaryClock

SpecSummary == InitSummary /\ [][NextSummary]_vars

\* ------------------------------------------------------ UnifiedDataFetcher

\* the partitions fetch_from_api1 asks for, in its order: the industries,
\* then the leveraged funds and the sector funds
Sources == [i \in 1..MaxIndustries |-> "industry"] \o <<"leveraged-funds", "sector-funds">>

\* what the provider does with a request: a list of row dicts, a list of row
\* lists, an empty list, no answer within the timeout, a status other than
\* 200, a body that is not JSON, and a JSON body that is not a list of rows
\* (a dict without "data", as {"error": ...})
Answers == {"dicts", "lists", "empty", "timeout", "status", "not_json", "wrong_shape"}

\* the rows of a partition
RowsOfSource(i, kind) == <<[kind |-> kind, source |-> i]>>

\* _fetch_industry_data, and _fetch_leveraged_funds_data and
\* _fetch_sector_funds_data, which have the same body: a status other than
\* 200 and every exception (timeout, response.json() of a body that is not
\* JSON) give []; every JSON value is returned as it is
fetch_data(i, answer) ==
    CASE answer = "dicts" -> RowsOfSource(i, "dict")
      [] answer = "lists" -> RowsOfSource(i, "list")
      [] answer = "wrong_shape" -> RowsOfSource(i, "str")
      [] OTHER -> <<>>

\* the loop over the rows of a partition raises: row.copy() of a row that is
\* neither a list nor a dict
rows_raise(payload) == \E k \in 1..Len(payload) : payload[k].kind \notin {"list", "dict"}

\* the row dicts the loop appends to all_rows: a list is zipped with the
\* column names, a dict is copied
rows_to_append(payload) ==
    LET row_dict(row) == [row EXCEPT !.kind = "dict"]
    IN  [k \in 1..Len(payload) |-> row_dict(payload[k])]

\* one turn of fetch_from_api1: the request of the next partition and the
\* loop over its rows; an exception in the loop is caught by the
\* `except Exception` of fetch_from_api1, which returns None
FetchSource ==
    /\ fetcher.pc = "fetching"
    /\ fetcher.current_source < Len(Sources)
    /\ \E answer \in Answers :
        LET i == fetcher.current_source + 1
            payload == fetch_data(i, answer)
        IN  fetcher' =
              IF payload # <<>> /\ rows_raise(payload)
              THEN [fetcher EXCEPT !.pc = "returned", !.current_source = i,
                                   !.answers = Append(@, answer),
                                   !.result = "None"]
              ELSE [fetcher EXCEPT !.current_source = i,
                                   !.answers = Append(@, answer),
                                   !.all_rows = @ \o rows_to_append(payload)]
    /\ UNCHANGED <<ledgerVars, runVars, mainVars, processor, summary, manager>>

\* the end of fetch_from_api1: None when no row was received, the frame of
\* all_rows otherwise
FetchReturn ==
    /\ fetcher.pc = "fetching"
    /\ fetcher.current_source = Len(Sources)
    /\ fetcher' = [fetcher EXCEPT !.pc = "returned",
                                  !.result = IF fetcher.all_rows = <<>> THEN "None" ELSE "df"]
    /\ UNCHANGED <<ledgerVars, runVars, mainVars, processor, summary, manager>>

\* fetch_from_api1 is called
InitFetch ==
    /\ InitQuietLedger
    /\ InitNoRun
    /\ processor = Idle /\ summary = Idle /\ manager = Idle
    /\ fetcher = [pc |-> "fetching", current_source |-> 0, answers |-> <<>>,
                  all_rows |-> <<>>, result |-> "none"]

NextFetch == FetchSource \/ FetchReturn

SpecFetch == InitFetch /\ [][NextFetch]_vars

\* ------------------------------------------------------- ledger properties

\* the entries of today's partition of a document
Today(doc) == IF today_jalali \in DOMAIN doc THEN Range(doc[today_jalali]) ELSE {}

\* manager p returns from mark_multiple_as_sent in this step
Returns(p, r) == mpc[p] # "idle" /\ mpc'[p] = "idle" /\ result'[p] = r

\* C1 - No lost updates: once two managers have each completed calls of
\* mark_multiple_as_sent that added entries and returned success, with
\* disjoint entries, and no call is in progress, today's partition of the
\* Gist holds the entries of both.
NoLostUpdates ==
    ( /\ \A p \in Procs : mpc[p] = "idle"
      /\ committed["A"] # {} /\ committed["B"] # {}
      /\ committed["A"] \cap committed["B"] = {} )
    => (committed["A"] \cup committed["B"]) \subseteq Today(remote)

\* C2 - Ledger uniqueness: no partition of the Gist holds an entry twice.
LedgerUnique ==
    \A d \in DOMAIN remote : \A i, j \in DOMAIN remote[d] :
        i # j => remote[d][i] # remote[d][j]

\* C6 - Idempotent dedup check: between calls of mark_multiple_as_sent, a
\* manager whose cache is loaded answers "not yet sent" for every entry that
\* today's partition of the Gist does not hold, and "already sent" for every
\* entry of a call of its own that wrote the Gist and returned success.
DedupCheckIdempotent ==
    \A p \in Procs, a \in Pairs :
        (mpc[p] = "idle" /\ ~cache[p].isNone) =>
            /\ a \notin Today(remote) => NotYetSent(cache[p].doc, a)
            /\ a \in committed[p] => ~NotYetSent(cache[p].doc, a)

\* C7 - A failed commit records nothing: the step in which
\* mark_multiple_as_sent returns False leaves the Gist as it was, and after it
\* should_send_alert still answers "not yet sent" for every entry of the call
\* that the Gist does not hold.
FailedCommitRecordsNothing ==
    [][\A p \in Procs : Returns(p, "False") =>
          /\ remote' = remote
          /\ \A a \in Range(alerts[p]) :
                a \notin Today(remote') => NotYetSent(cache'[p].doc, a)]_vars

\* C8 - Retention bound: a write that succeeds leaves at most Retention days
\* in the Gist, as many as the written document allows, and every day it
\* leaves is later than every day of the Gist or of the written document
\* that it drops.
RetentionBound ==
    [][\A p \in Procs : Returns(p, "True") /\ mpc[p] = "patch" =>
          LET kept == DOMAIN remote'
              dropped == (DOMAIN remote \cup DOMAIN data[p]) \ kept
          IN  /\ Cardinality(kept) <= Retention
              /\ Cardinality(DOMAIN data[p]) >= Retention => Cardinality(kept) = Retention
              /\ kept \subseteq DOMAIN data[p]
              /\ \A k \in kept, d \in dropped : d < k]_vars

\* a write on day D4 to a Gist that held D1..D3 has left D2, D3, D4
RetentionWitness ==
    /\ \E p \in Procs : committed[p] # {}
    /\ DOMAIN remote = (today_jalali - Retention + 1)..today_jalali
    /\ remote[today_jalali] = <<Alert("BBB", "r1")>>

\* ------------------------------------------------------ dispatch properties

\* C3 - No double-fire across runs: over the runs of one day, overlapping or
\* one after the other, the sink accepts a message holding a given
\* (symbol, filter) at most once.
NoDoubleFire == \A a \in AllPairs : delivered[a] <= 1

\* C4 - Commit only after confirmed delivery: while mark_multiple_as_sent is
\* in progress every task of the run has its result, the list it was handed
\* holds each (symbol, filter) as often as the batches whose send returned
\* True hold it (so nothing of a failed batch), and the sink has accepted a
\* message for every entry of the list.
CommitAfterDelivery ==
    \A p \in Procs : mpc[p] # "idle" =>
        /\ \A t \in DOMAIN tpc[p] : tpc[p][t] \in {"True", "False"}
        /\ \A a \in AllPairs :
              Cardinality({i \in DOMAIN alerts[p] : alerts[p][i] = a})
              = Cardinality({x \in (DOMAIN all_tasks[p]) \X (1..Len(AllSymbols)) :
                    /\ tpc[p][x[1]] = "True"
                    /\ all_tasks[p][x[1]].filter_name = a.alert_type
                    /\ x[2] \in DOMAIN all_tasks[p][x[1]].symbols
                    /\ all_tasks[p][x[1]].symbols[x[2]] = a.symbol})
        /\ \A a \in Range(alerts[p]) : delivered[a] >= 1

\* a commit was written after a run in which one batch was delivered and
\* another failed
CommitAfterDeliveryWitness ==
    \E p \in Procs :
        /\ rpc[p] = "commit" /\ mpc[p] = "idle" /\ result[p] = "True"
        /\ committed[p] # {}
        /\ \E t, u \in DOMAIN tpc[p] : tpc[p][t] = "True" /\ tpc[p][u] = "False"

\* C5 - Already-sent matches are skipped: in the step that checks the matches
\* of a run, every match whose (symbol, filter) today's partition of the Gist
\* holds is counted in skipped_count, once, and is in no batch of the run.
AlreadySentSkipped ==
    [][\A p \in Procs : (rpc[p] = "start" /\ rpc'[p] # "start") =>
          LET sent == {x \in Rules \X (1..Len(AllSymbols)) :
                          /\ x[2] \in DOMAIN matches[p][x[1]]
                          /\ Alert(matches[p][x[1]][x[2]], x[1]) \in Today(remote)}
          IN  /\ skipped_count'[p] = Cardinality(sent)
              /\ \A t \in DOMAIN all_tasks'[p] :
                    \A s \in Range(all_tasks'[p][t].symbols) :
                        Alert(s, all_tasks'[p][t].filter_name) \notin Today(remote)]_vars

\* C9 - Concurrency limit: at most SemaphoreSize calls of bot.send_message of
\* a run, first sends and retries together, are awaiting their answer.
InFlightBounded ==
    \A p \in Procs :
        Cardinality({t \in DOMAIN tpc[p] : tpc[p][t] \in {"send1", "send2"}})
            <= SemaphoreSize

\* SemaphoreSize sends are in flight, one of them a retry, and a further
\* batch waits for the semaphore
InFlightWitness ==
    \E p \in Procs :
        /\ Cardinality({t \in DOMAIN tpc[p] : tpc[p][t] \in {"send1", "send2"}})
              = SemaphoreSize
        /\ \E t \in DOMAIN tpc[p] : tpc[p][t] = "send2"
        /\ \E t \in DOMAIN tpc[p] : tpc[p][t] = "wait"

\* C10 - Pacing floor: any two calls of bot.send_message of a dispatch are
\* SendDelay seconds or more apart.
PacingFloor == minGap >= SendDelay

\* C11 - Per-batch send retry policy: a task calls bot.send_message first
\* from its start and a second time only after the wait that follows a
\* RetryAfter (the seconds the sink named) or a TimedOut of the first call,
\* once that wait is over; after the second call, and after a first call
\* that failed otherwise, the task has its result and calls no more.
RetryPolicy ==
    [][\A p \in Procs : \A t \in DOMAIN tpc[p] \cap DOMAIN tpc'[p] :
          tpc'[p][t] # tpc[p][t] =>
              /\ tpc'[p][t] = "send1" => tpc[p][t] = "wait"
              /\ tpc'[p][t] = "sleep_retry" =>
                    /\ tpc[p][t] = "send1"
                    /\ rem'[p][t] \in (1..MaxRetryAfter) \cup {TimeoutDelay}
              /\ tpc'[p][t] = "send2" => tpc[p][t] = "sleep_retry" /\ rem[p][t] = 0
              /\ tpc[p][t] = "send2" => tpc'[p][t] \in {"True", "False"}
              /\ tpc[p][t] \notin {"True", "False"}]_vars

\* one batch is given up while another makes its second call
RetryPolicyWitness ==
    /\ timed
    /\ \E p \in Procs : \E t, u \in DOMAIN tpc[p] :
          tpc[p][t] = "send2" /\ tpc[p][u] = "False"

\* C12 - Per-batch failure isolation: the step in which a batch fails changes
\* the state of no other batch of the run, every batch that does not hold
\* the semaphore has given it back, and when the gather is over every batch
\* has its result, sent_count is the number of symbols of the delivered
\* batches and the commit is handed every (symbol, filter) of them.
FailureIsolated ==
    [][\A p \in Procs :
          /\ \A t \in DOMAIN tpc[p] \cap DOMAIN tpc'[p] :
                (tpc'[p][t] = "False" /\ tpc[p][t] # "False") =>
                    \A u \in DOMAIN tpc[p] \ {t} : tpc'[p][u] = tpc[p][u]
          /\ semaphore'[p] = SemaphoreSize - Cardinality({t \in DOMAIN tpc'[p] :
                    tpc'[p][t] \in {"send1", "sleep_ok", "sleep_retry", "send2"}})
          /\ (rpc[p] = "gather" /\ rpc'[p] # "gather") =>
                LET ok == {t \in DOMAIN tpc[p] : tpc[p][t] = "True"}
                IN  /\ \A t \in DOMAIN tpc[p] : tpc[p][t] \in {"True", "False"}
                    /\ sent_count'[p] = Cardinality({x \in ok \X (1..Len(AllSymbols)) :
                            x[2] \in DOMAIN all_tasks[p][x[1]].symbols})
                    /\ \A t \in ok : \A s \in Range(all_tasks[p][t].symbols) :
                            Alert(s, all_tasks[p][t].filter_name) \in Range(alerts'[p])]_vars

\* the first batch of a run failed, a later one was delivered, counted and
\* handed to the commit
FailureIsolatedWitness ==
    \E p \in Procs :
        /\ rpc[p] = "commit" /\ sent_count[p] > 0
        /\ \E t, u \in DOMAIN tpc[p] :
              t < u /\ tpc[p][t] = "False" /\ tpc[p][u] = "True"

\* C13 - Batching of eligible matches: the step that checks the matches of a
\* run makes, for every filter, the batches that cutting the list of its
\* matches that should_send_alert lets through into pieces of
\* STOCKS_PER_MESSAGE gives: as many, with the same symbols in the same order.
BatchesOfEligible ==
    [][\A p \in Procs : (rpc[p] = "start" /\ rpc'[p] # "start") =>
          \A r \in Rules :
              LET elig == symbols_to_send(matches[p][r], r, cache'[p].doc)
                  n == Len(elig)
                  OfRule(b) == b.filter_name = r
                  mine == SelectSeq(all_tasks'[p], OfRule)
              IN  /\ Len(mine) = (n + STOCKS_PER_MESSAGE - 1) \div STOCKS_PER_MESSAGE
                  /\ \A i \in DOMAIN mine :
                        mine[i].symbols =
                            SubSeq(elig, (i - 1) * STOCKS_PER_MESSAGE + 1,
                                   IF i * STOCKS_PER_MESSAGE < n
                                   THEN i * STOCKS_PER_MESSAGE ELSE n)]_vars

\* C14 - Exit codes: a run that completes ends with exit code 0, whatever
\* batches and commits failed; a run whose configuration is not valid ends
\* with a code other than 0 and has fetched nothing and dispatched nothing;
\* a run in which an error was raised ends with a code other than 0; and no
\* run that has not ended has an exit code.
ExitCodes ==
    \A p \in Procs :
        /\ main_pc[p] = "completed" => exit_code[p] = "0"
        /\ main_pc[p] = "config_error" =>
              /\ exit_code[p] \notin {"0", "none"}
              /\ ~fetched[p]
              /\ rpc[p] = "idle" /\ all_tasks[p] = <<>> /\ cache[p].isNone
              /\ \A a \in AllPairs : delivered[a] = 0
        /\ main_pc[p] = "crashed" => exit_code[p] \notin {"0", "none"}
        /\ main_pc[p] \in {"validate", "market", "fetch", "dispatch"} =>
              exit_code[p] = "none"

\* a run has completed in which a batch failed and the commit failed
ExitCodesWitness ==
    \E p \in Procs :
        /\ main_pc[p] = "completed" /\ exit_code[p] = "0" /\ fetched[p]
        /\ result[p] = "False"
        /\ \E t \in DOMAIN tpc[p] : tpc[p][t] = "False"

\* C15 - Unreachable ledger store is fatal: a run whose read of the Gist
\* failed, so that its cache is empty, makes no call of bot.send_message.
UnreachableStoreFatal ==
    \A p \in Procs :
        (~cache[p].isNone /\ cache[p].doc = EmptyDoc) =>
            \A t \in DOMAIN tpc[p] : tpc[p][t] \in {"wait", "False"}

\* C16 - A rule configuration error skips only that rule: when the
\* configuration of filter_2 lacks a field the rule reads, apply_all_filters
\* still returns, with the result of every other rule.
ConfigErrorSkipsRule ==
    (/\ processor.pc \notin {"idle", "ready"}
     /\ processor.df_api1 # <<>>
     /\ "min_sarane_kharid" \notin DOMAIN processor.config.cross) =>
        /\ processor.pc = "returned"
        /\ \A k \in DOMAIN api1_results(<<>>, processor.config, 0, EmptyDict) \ {"filter_2_sarane_cross"} :
              /\ k \in DOMAIN processor.filters_results
              /\ processor.filters_results[k] =
                    api1_results(processor.df_api1,
                                 [processor.config EXCEPT !.cross = [min_value_to_avg_monthly |-> 5,
                                                                     min_sarane_kharid |-> 50]],
                                 processor.hour, EmptyDict)[k]

\* C17 - Strong-buying rule predicate: the result of
\* filter_1_strong_buying_power holds a row of the table if and only if its
\* value ratio, buy per capita and buy power are above their thresholds and
\* its buy power is above its 5-day average.
StrongBuyingPredicate ==
    (/\ processor.pc \in {"returned", "raised"}
     /\ "filter_1_strong_buying" \in DOMAIN processor.evaluated) =>
        \A i \in 1..Len(processor.df_api1) :
            LET r == processor.df_api1[i]
                config == processor.config.strong
            IN  (r \in Range(processor.evaluated["filter_1_strong_buying"])) <=>
                    /\ r.value_to_avg_monthly_value > config.min_value_to_avg_monthly
                    /\ r.sarane_kharid > config.min_sarane_kharid
                    /\ r.godrat_kharid > config.min_godrat_kharid
                    /\ r.godrat_kharid > r.day5_godrat_kharid

SummaryOncePerDay ==
    summary.pc # "idle" => \A d \in DOMAIN summary.sent : summary.sent[d] <= 1

\* C20 - Provider failures are isolated per call: whatever the provider
\* answers for a partition, fetch_from_api1 requests every partition, and
\* the table it returns holds the rows of every partition that was fetched
\* successfully.
FetchIsolated ==
    fetcher.pc = "returned" =>
        /\ fetcher.current_source = Len(Sources)
        /\ \A i \in 1..Len(Sources) :
              fetcher.answers[i] \in {"dicts", "lists"} =>
                  /\ fetcher.result = "df"
                  /\ \E k \in 1..Len(fetcher.all_rows) : fetcher.all_rows[k].source = i

\* C22 - Time-gated rule: at an hour outside [start_hour, end_hour) the
\* result of filter_9_first_hour is empty whatever the rows; at an hour
\* inside, it holds each row of the table whose value ratio is at least the
\* configured minimum once, and no other row.
TimeGatedRule ==
    (/\ processor.pc = "returned"
     /\ "filter_9_first_hour" \in DOMAIN processor.evaluated) =>
        LET matched == processor.evaluated["filter_9_first_hour"]
            inside == /\ FIRST_HOUR_CONFIG.start_hour <= processor.hour
                      /\ processor.hour < FIRST_HOUR_CONFIG.end_hour
            expected == {r \in Range(processor.df_api1) :
                            r.value_to_avg_monthly_value >= FIRST_HOUR_CONFIG.min_value_to_avg_ratio}
        IN  IF inside
            THEN Range(matched) = expected /\ Len(matched) = Cardinality(expected)
            ELSE matched = <<>>

\* inside the window a row was matched and a row was left out
TimeGatedRuleWitness ==
    /\ processor.pc = "returned"
    /\ processor.hour = 9
    /\ "filter_9_first_hour" \in DOMAIN processor.evaluated
    /\ processor.evaluated["filter_9_first_hour"] # <<>>
    /\ Len(processor.evaluated["filter_9_first_hour"]) < Len(processor.df_api1)

\* C23 - Ranked output: the match list of every rule is in non-increasing
\* order of the rule's ranking key, and holds each row of the rule's table
\* that satisfies the rule's predicate once, and no other row.
RankedOutput ==
    processor.pc \in {"returned", "raised"} =>
        \A k \in DOMAIN processor.evaluated :
            LET matched == processor.evaluated[k]
                table == table_of(k, processor.df_api1, processor.df_api2)
                expected == {r.symbol : r \in {x \in Range(table) :
                                rule_predicate(k, x, processor.config, processor.hour)}}
            IN  /\ k \in DOMAIN ranking_key =>
                      \A i, j \in 1..Len(matched) :
                          i < j => matched[i][ranking_key[k]] >= matched[j][ranking_key[k]]
                /\ {matched[i].symbol : i \in 1..Len(matched)} = expected
                /\ Len(matched) = Cardinality(expected)

\* rows were matched whose order in the table is not the order of their keys:
\* by filter_9 and by filter_10, and filter_3, filter_5, filter_6 and filter_8
\* matched rows too
RankedOutputWitness ==
    /\ processor.pc = "returned"
    /\ DOMAIN ranking_key \subseteq DOMAIN processor.evaluated
    /\ LET f9 == processor.evaluated["filter_9_first_hour"]
           f10 == processor.evaluated["filter_10_heavy_buy_queue"]
       IN  /\ Len(f9) > 1 /\ f9[1].symbol # processor.df_api1[1].symbol
           /\ f9[1].value_to_avg_monthly_value > f9[Len(f9)].value_to_avg_monthly_value
           /\ Len(f10) > 1 /\ f10[1].symbol # "AAA"
    /\ \A k \in {"filter_1_strong_buying", "filter_2_sarane_cross", "filter_7_suspicious_volume"} :
          processor.evaluated[k] # <<>>
    /\ \E k \in {"filter_3_watchlist", "filter_5_pol_hagigi_ratio",
                 "filter_6_tick_time", "filter_8_swing_trade"} :
          processor.evaluated[k] # <<>>

MissingInputsExcluded ==
    processor.pc = "returned" =>
        \A k \in DOMAIN processor.evaluated :
            LET table == table_of(k, processor.df_api1, processor.df_api2)
                missing == {r \in Range(table) : \E c \in required_columns[k] : r[c] = NaN}
            IN  /\ \A r \in missing :
                      \A i \in 1..Len(processor.evaluated[k]) :
                          processor.evaluated[k][i].symbol # r.symbol
                /\ missing # {} =>
                      /\ "missing" \in DOMAIN processor.log[k]
                      /\ processor.log[k].missing = Cardinality(missing)

\* C26 - No-op commit: a call of mark_multiple_as_sent with the empty list,
\* or one whose load found every entry of the list in today's partition,
\* returns True and no step of it writes the Gist; a call whose entries are
\* all in today's partition of the Gist goes on to a write only with the
\* empty document of a failed load.
NoOpCommit ==
    [][\A p \in Procs :
          /\ (mpc[p] = "idle" /\ handed' = handed /\ result'[p] # result[p])
                => (result'[p] = "True" /\ mpc'[p] = "idle" /\ remote' = remote)
          /\ (mpc[p] = "load" /\ mpc'[p] = "idle")
                => (result'[p] = "True" /\ remote' = remote)
          /\ (mpc[p] = "load" /\ mpc'[p] = "patch" /\ Range(alerts[p]) \subseteq Today(remote))
                => (data'[p] = Put(EmptyDoc, today_jalali, alerts[p]) /\ remote' = remote)]_vars

\* a call handed an entry that the Gist already held has returned True, and
\* nothing was written
NoOpCommitWitness ==
    \E p \in Procs :
        /\ \A q \in Procs : mpc[q] = "idle" /\ committed[q] = {}
        /\ \A q \in Procs \ {p} : result[q] = "none" /\ cache[q].isNone
        /\ result[p] = "True" /\ handed = 1
        /\ cache[p] = Cached(remote)
        /\ remote \in InitDocs
        /\ Today(remote) = {Alert("AAA", "r1")}

\* C27 - Bounded commit retries: the PATCH of _save_to_gist in attempt k has
\* k < max_retries; after its answer the call either returns, True only when
\* the store took the document, or goes on to attempt k + 1 < max_retries
\* after a wait longer than the wait before attempt k; the answer to attempt
\* max_retries - 1 ends the call, and every call that began to save returns.
BoundedRetries ==
    /\ [][\A p \in Procs : (mpc[p] = "patch" /\ mpc'[p] # "patch") =>
             /\ attempt[p] < max_retries
             /\ \/ /\ mpc'[p] = "reload"
                   /\ attempt'[p] = attempt[p] + 1
                   /\ attempt'[p] < max_retries
                   /\ retry_wait(attempt'[p]) > retry_wait(attempt[p])
                   /\ remote' = remote
                \/ /\ mpc'[p] = "idle"
                   /\ result'[p] \in {"True", "False"}
                   /\ result'[p] = "True" => remote' = Prune(data[p])
                   /\ remote' = remote => (result'[p] = "False" \/ remote = Prune(data[p]))]_vars
    /\ \A p \in Procs : (mpc[p] = "patch") ~> (mpc[p] = "idle")

\* the last attempt of a call is awaiting its answer: the attempts before it
\* were rejected and the Gist is as it was
BoundedRetriesWitness ==
    \E p \in Procs :
        /\ mpc[p] = "patch" /\ attempt[p] = max_retries - 1
        /\ \A q \in Procs : committed[q] = {}
        /\ remote \in InitDocs

\* C28 - Entries of the current day are never removed by a commit: every
\* PATCH of _save_to_gist that the store accepts, in the first attempt or in
\* a retry, writes a partition of today that holds every entry the Gist held
\* in it just before the write.
CommitKeepsToday ==
    [][\A p \in Procs : (mpc[p] = "patch" /\ mpc'[p] # "patch" /\ remote' # remote) =>
          Today(remote) \subseteq Today(remote')]_vars

\* the (symbol, filter) of the batches of run p whose send has failed
FailedPairs(p) ==
    IF \A t \in DOMAIN tpc[p] : tpc[p][t] \in {"True", "False"}
    THEN Range(Marks(1, all_tasks[p], tpc[p], {"False"})) ELSE {}

CommitFailureNoResend ==
    [][\A p \in Procs : rpc[p] = "commit" =>
          /\ sent_count[p] = Len(successful_marks(all_tasks[p], tpc[p]))
          /\ sent_count'[p] = sent_count[p]
          /\ tpc'[p] = tpc[p] /\ all_tasks'[p] = all_tasks[p]
          /\ delivered' = delivered
          /\ rpc'[p] = "commit"
          /\ (result[p] = "False" /\ main_pc'[p] # main_pc[p])
                => (main_pc'[p] = "completed" /\ exit_code'[p] = "0")]_vars

\* a run has completed with exit code 0 after its commit returned False, with
\* the delivered batch counted
CommitFailureWitness ==
    \E p \in Procs :
        /\ main_pc[p] = "completed" /\ exit_code[p] = "0" /\ fetched[p]
        /\ rpc[p] = "commit" /\ result[p] = "False"
        /\ sent_count[p] > 0
        /\ \E a \in AllPairs : delivered[a] = 1 /\ a \notin Today(remote)

\* C25 - Safe division in the normalizer: in every normalized row
\* pol_hagigi_to_avg_monthly_value is 0 when avg_monthly_value is zero or
\* missing and pol_hagigi / avg_monthly_value otherwise, buy_order is 0 when
\* zd1 is zero or missing and (qd1 * pd1 / zd1) / 10_000_000 otherwise, and
\* neither is NaN.
SafeDivision ==
    processor.pc = "normalized" =>
        /\ \A i \in DOMAIN processor.df_api1 :
              LET raw == processor.raw_api1[i]
                  row == processor.df_api1[i]
              IN  /\ row.pol_hagigi_to_avg_monthly_value # NaN
                  /\ IF "avg_monthly_value" \in DOMAIN raw
                        /\ to_numeric(raw.avg_monthly_value) \notin {0, NaN}
                     THEN to_numeric(raw.pol_hagigi) # NaN =>
                            row.pol_hagigi_to_avg_monthly_value
                              = (10 * to_numeric(raw.pol_hagigi))
                                    \div to_numeric(raw.avg_monthly_value)
                     ELSE row.pol_hagigi_to_avg_monthly_value = 0
        /\ \A i \in DOMAIN processor.df_api2 :
              LET raw == processor.raw_api2[i]
                  row == processor.df_api2[i]
              IN  /\ row.buy_order # NaN
                  /\ IF raw.zd1 \notin {0, NaN}
                     THEN raw.qd1 # NaN =>
                            row.buy_order = (raw.qd1 * raw.pd1) \div (raw.zd1 * 10000000)
                     ELSE row.buy_order = 0

\* the (symbol, filter) of the batches of run p whose result is r
PairsWithResult(p, r) ==
    UNION {{Alert(all_tasks[p][t].symbols[k], all_tasks[p][t].filter_name) :
                k \in DOMAIN all_tasks[p][t].symbols} :
           t \in {u \in DOMAIN tpc[p] : tpc[p][u] = r}}

\* the number of matches in the batches of run p whose result is r
MatchesWithResult(p, r) ==
    Cardinality({x \in (DOMAIN tpc[p]) \X (1..Len(AllSymbols)) :
                    tpc[p][x[1]] = r /\ x[2] \in DOMAIN all_tasks[p][x[1]].symbols})

\* C31 - Completion-order independence: whatever the order in which the
\* tasks of a run took their steps and ended, the step that collects the
\* results of gather sets sent_count to the number of matches of the batches
\* whose result is True, leaves skipped_count as the dispatch loop set it,
\* and hands to mark_multiple_as_sent the (symbol, filter) of exactly those
\* batches; the sink has accepted the message of every batch whose result is
\* True and of no batch whose result is False.
CompletionOrderIndependent ==
    [][\A p \in Procs : (rpc[p] = "gather" /\ rpc'[p] # "gather") =>
          /\ sent_count'[p] = MatchesWithResult(p, "True")
          /\ skipped_count'[p] = skipped_count[p]
          /\ Range(alerts'[p]) = PairsWithResult(p, "True")
          /\ \A a \in PairsWithResult(p, "True") : delivered[a] >= 1
          /\ \A a \in PairsWithResult(p, "False") : delivered[a] = 0]_vars

\* the results are collected of a run whose first batch failed and whose
\* second batch, of another size, was delivered: the second alone is counted
CompletionOrderWitness ==
    \E p \in Procs :
        /\ rpc[p] = "commit"
        /\ Len(tpc[p]) = 2 /\ tpc[p][1] = "False" /\ tpc[p][2] = "True"
        /\ Len(all_tasks[p][1].symbols) # Len(all_tasks[p][2].symbols)
        /\ sent_count[p] = Len(all_tasks[p][2].symbols)
        /\ Range(alerts[p]) = PairsWithResult(p, "True")

\* C34 - Market gate: a run made at an instant at which is_market_open is
\* false, once past the check, has returned from main_async with exit code 0
\* without a call of fetch_all_data, without a dispatch (no task, no message
\* accepted by the sink), without a read of the Gist into its cache and
\* without a call of mark_multiple_as_sent.
MarketGate ==
    \A p \in Procs :
        (~is_market_open(clock[p]) /\ main_pc[p] \notin {"validate", "market", "config_error"}) =>
            /\ main_pc[p] = "closed" /\ exit_code[p] = "0"
            /\ ~fetched[p]
            /\ rpc[p] = "idle" /\ all_tasks[p] = <<>>
            /\ \A a \in AllPairs : delivered[a] = 0
            /\ cache[p].isNone
            /\ mpc[p] = "idle" /\ result[p] = "none" /\ committed[p] = {}
            /\ remote \in InitDocs

\* a run made at 12:31:00 of a working day that is no holiday has ended at
\* the market check
MarketGateWitness ==
    \E p \in Procs :
        /\ main_pc[p] = "closed" /\ exit_code[p] = "0"
        /\ clock[p] = [weekday |-> 5, holiday |-> FALSE, seconds |-> 45060]

\* C32 - In-process write serialization: at most one caller of a manager is
\* inside the retry loop of _save_to_gist, between its first PATCH and its
\* return, and the lock is held exactly while one is: every return of the
\* loop, with True or with False, leaves it free.
WriteSerialized ==
    manager # Idle =>
        /\ Cardinality(Inside(manager)) <= 1
        /\ manager.locked <=> Inside(manager) # {}

\* a caller has returned False after its last attempt was rejected, and
\* another caller is inside the loop, at a retry
WriteSerializedWitness ==
    /\ manager # Idle
    /\ \E c, d \in Callers :
          /\ manager.at[c] = "returned" /\ manager.ret[c] = "False"
          /\ manager.attempt[c] = max_retries - 1
          /\ manager.at[d] = "reload"

\* C33 - Time-bounded dedup cache: every answer of should_send_alert that
\* comes from a loaded document comes from one that was loaded less than the
\* cache duration (10 seconds) before the answer.
CachedAnswerFresh ==
    (manager # Idle /\ manager.answer.asked /\ ~manager.answer.unloaded) =>
        manager.answer.age < cache_duration

\* C35 - Pruning keeps the committed day: in the step in which a
\* mark_multiple_as_sent that had new entries returns True from its PATCH,
\* the Gist and the cache of the manager both hold the partition of today
\* with every entry of the call, and the pruning of the written document has
\* kept today.
PruneKeepsToday ==
    [][\A p \in Procs : (Returns(p, "True") /\ mpc[p] = "patch") =>
          /\ today_jalali \in DOMAIN Prune(data[p])
          /\ today_jalali \in DOMAIN remote'
          /\ Range(alerts[p]) \subseteq Today(remote')
          /\ ~cache'[p].isNone
          /\ today_jalali \in DOMAIN cache'[p].doc
          /\ Range(alerts[p]) \subseteq Today(cache'[p].doc)]_vars

\* a manager has written a new entry on day D4 to a Gist that held the
\* Retention days before it: the Gist and the cache hold D2..D4, today with
\* the entry
PruneKeepsTodayWitness ==
    \E p \in Procs :
        /\ mpc[p] = "idle" /\ result[p] = "True"
        /\ committed[p] = {Alert("BBB", "r1")}
        /\ DOMAIN remote = (today_jalali - Retention + 1)..today_jalali
        /\ Alert("BBB", "r1") \in Today(remote)
        /\ cache[p] = Cached(remote)
        /\ \A d \in DOMAIN remote \ {today_jalali} : remote[d] = OldPartition

\* the places (task, position) at which the batches hold symbol s for filter r
PlacesInBatches(tasks, s, r) ==
    {x \in (DOMAIN tasks) \X (1..Len(AllSymbols)) :
        /\ tasks[x[1]].filter_name = r
        /\ x[2] \in DOMAIN tasks[x[1]].symbols
        /\ tasks[x[1]].symbols[x[2]] = s}

\* C36 - Batches partition the eligible matches: in the step that checks the
\* matches of a run, every match for which should_send_alert answers "not
\* yet sent" is at exactly one place of the batches of its filter, a match
\* for which it answers "already sent" is at none, and every batch holds at
\* least one and at most STOCKS_PER_MESSAGE symbols.
BatchesPartition ==
    [][\A p \in Procs : (rpc[p] = "start" /\ rpc'[p] # "start") =>
          /\ \A r \in Rules : \A i \in DOMAIN matches[p][r] :
                LET s == matches[p][r][i]
                    places == PlacesInBatches(all_tasks'[p], s, r)
                IN  IF NotYetSent(cache'[p].doc, Alert(s, r))
                    THEN Cardinality(places) = 1
                    ELSE places = {}
          /\ \A t \in DOMAIN all_tasks'[p] :
                /\ Len(all_tasks'[p][t].symbols) \in 1..STOCKS_PER_MESSAGE
                /\ \A k \in DOMAIN all_tasks'[p][t].symbols :
                      \E i \in DOMAIN matches[p][all_tasks'[p][t].filter_name] :
                          matches[p][all_tasks'[p][t].filter_name][i]
                              = all_tasks'[p][t].symbols[k]]_vars

\* a filter matched three symbols of which the first was sent before: the
\* two others are in two batches of the filter, cut at the chunk border
BatchesPartitionWitness ==
    \E p \in Procs :
        /\ rpc[p] = "gather"
        /\ matches[p]["r1"] = <<"AAA", "BBB", "CCC">>
        /\ skipped_count[p] = 1
        /\ Len(all_tasks[p]) >= 2
        /\ all_tasks[p][1].symbols = <<"BBB">> /\ all_tasks[p][1].filter_name = "r1"
        /\ all_tasks[p][2].symbols = <<"CCC">> /\ all_tasks[p][2].filter_name = "r1"

\* the number of rows of filters_results of run p
TotalMatches(p) ==
    Cardinality({x \in Rules \X (1..Len(AllSymbols)) : x[2] \in DOMAIN matches[p][x[1]]})

\* C37 - Dispatch accounting: the step that checks the matches of a run
\* leaves in skipped_count the number of matches for which should_send_alert
\* answered "already sent"; and whenever send_alerts_for_filters_async has
\* returned, sent_count is the number of matches in the batches whose send
\* gave True, skipped_count is still that number, and sent_count,
\* skipped_count and the number of matches in the batches whose send gave
\* False add up to the number of matches.
DispatchAccounting ==
    [][\A p \in Procs :
          /\ (rpc[p] = "start" /\ rpc'[p] # "start") =>
                skipped_count'[p] =
                    Cardinality({x \in Rules \X (1..Len(AllSymbols)) :
                        /\ x[2] \in DOMAIN matches[p][x[1]]
                        /\ ~NotYetSent(cache'[p].doc, Alert(matches[p][x[1]][x[2]], x[1]))})
          /\ (rpc[p] # "start" /\ rpc'[p] # "start") => skipped_count'[p] = skipped_count[p]
          /\ RunOver(p)' =>
                /\ sent_count'[p] = MatchesWithResult(p, "True")'
                /\ sent_count'[p] + skipped_count'[p] + MatchesWithResult(p, "False")'
                      = TotalMatches(p)'
                /\ \A t \in DOMAIN tpc'[p] : tpc'[p][t] \in {"True", "False"}]_vars

\* a run has returned after it skipped one match, delivered one batch and
\* failed to deliver another
DispatchAccountingWitness ==
    \E p \in Procs :
        /\ RunOver(p)
        /\ skipped_count[p] = 1 /\ sent_count[p] = 1
        /\ MatchesWithResult(p, "False") = 1
        /\ TotalMatches(p) = 3

\* C38 - Dispatch terminates: a call of send_alerts_for_filters_async that
\* has begun returns; when it has, every batch task has ended with True or
\* False and every permit of the semaphore has been given back.
DispatchTerminates ==
    \A p \in Procs :
        (rpc[p] \in {"start", "gather"}) ~>
            /\ RunOver(p)
            /\ \A t \in DOMAIN tpc[p] : tpc[p][t] \in {"True", "False"}
            /\ semaphore[p] = SemaphoreSize

\* a call with more batches than the semaphore has permits has returned,
\* with a batch that was delivered and one that failed
DispatchTerminatesWitness ==
    \E p \in Procs :
        /\ RunOver(p)
        /\ Len(tpc[p]) > SemaphoreSize
        /\ semaphore[p] = SemaphoreSize
        /\ \E t, u \in DOMAIN tpc[p] : tpc[p][t] = "True" /\ tpc[p][u] = "False"

====
